---------------------------- MODULE Spec2Model ----------------------------
(***************************************************************************)
(* A model of daisy (src/daisy.hh): the shelf-packing texture atlas        *)
(* c_texatlas, the batching command queue c_renderqueue with its two       *)
(* growable host buffers, and the two-slot c_doublebuffer_queue driven by  *)
(* a writer thread and a flusher thread (src/example/example.cc).          *)
(*                                                                         *)
(* Conventions.                                                            *)
(*  - uint32_t values are pairs <<hi, lo>> of 16-bit halves, so that the   *)
(*    arithmetic of the source is computed modulo 2^32.                    *)
(*  - float pixel coordinates of the atlas are integral pixel counts; a    *)
(*    normalised texture coordinate is an exact fraction <<num, den>>.     *)
(*  - a text is a run-length encoded string: a sequence of runs            *)
(*    [cls, n], n characters of one character class.                       *)
(***************************************************************************)
EXTENDS Integers, Sequences, FiniteSets, TLC

VARIABLES
  atlas,          \* the c_texatlas object
  atlas_packed,   \* rectangles packed into the current texture, in order
  atlas_call,     \* the last c_texatlas call: arguments and return value
  queue,          \* the c_renderqueue object
  queue_hist,     \* the submissions made to queue since its last clear()
  queue_calls,    \* the number of c_renderqueue calls made so far
  queue_call,     \* the last c_renderqueue call: arguments, return value, and
                  \* the device operations it issued
  dbq,            \* the c_doublebuffer_queue object
  writer,         \* the writer thread: where it is, the slot and the call
  flusher,        \* the flusher thread: where it is in flush(), the slot, and
                  \* the device operations issued
  dbq_handoff,    \* per slot, what it held when it last became the flush target
  dbq_writes,     \* the number of submissions the writer has made so far
  dbq_swaps,      \* the number of swap() calls so far
  font,           \* the c_fontwrapper object
  font_env,       \* the font GDI selects for m_family, and MaxTextureWidth
  font_created,   \* the c_fontwrapper object as the last create() left it
  font_calls,     \* the number of c_fontwrapper calls made so far
  font_call,      \* the last c_fontwrapper call: arguments and results
  fault           \* "none", or how the process stopped: "crash" on a null or
                  \* dangling handle or a data race, "hang" in a loop that
                  \* never ends

atlas_vars == <<atlas, atlas_packed, atlas_call>>

queue_vars == <<queue, queue_hist, queue_calls, queue_call>>

dbq_vars == <<dbq, writer, flusher, dbq_handoff, dbq_writes, dbq_swaps>>

font_vars == <<font, font_env, font_created, font_calls, font_call>>

vars ==
  <<atlas, atlas_packed, atlas_call, queue, queue_hist, queue_calls, queue_call,
    dbq, writer, flusher, dbq_handoff, dbq_writes, dbq_swaps,
    font, font_env, font_created, font_calls, font_call, fault>>

(***************************************************************************)
(* Bounds of the model.                                                    *)
(***************************************************************************)
AtlasW == 3
AtlasH == 2
MaxKey == 2
MaxOps == 5
\* submissions of the writer thread, swap() calls
MaxWrites == 3
MaxSwaps == 2
MaxFontOps == 3
MaxCreates == 1

NULL == "null"

Max(a, b) == IF a < b THEN b ELSE a

(***************************************************************************)
(* uint32_t                                                                *)
(***************************************************************************)
Half == 65536

u32(n) == <<n \div Half, n % Half>>

u32_add(a, b) ==
  LET lo == a[2] + b[2]
  IN  <<(a[1] + b[1] + (lo \div Half)) % Half, lo % Half>>

u32_lt(a, b) == a[1] < b[1] \/ (a[1] = b[1] /\ a[2] < b[2])

u32_le(a, b) == a = b \/ u32_lt(a, b)

(***************************************************************************)
(* float texture coordinates, as exact fractions in lowest terms           *)
(***************************************************************************)
RECURSIVE Gcd(_, _)
Gcd(a, b) == IF b = 0 THEN a ELSE Gcd(b, a % b)

Frac(n, d) == LET g == Gcd(n, d) IN <<n \div g, d \div g>>

FracAdd(p, q) == Frac(p[1] * q[2] + q[1] * p[2], p[2] * q[2])

FracLe(p, q) == p[1] * q[2] <= q[1] * p[2]

FracZero == <<0, 1>>

FracOne == <<1, 1>>

\* u * dim, a pixel coordinate
FracToPixel(p, dim) == (p[1] * dim) \div p[2]

null_uv == <<FracZero, FracZero, FracZero, FracZero>>

(***************************************************************************)
(* c_texatlas                                                              *)
(***************************************************************************)
Keys == 1 .. MaxKey

\* the state the constructor leaves
AtlasConstructed ==
  [ m_coords         |-> [k \in {} |-> null_uv],
    m_cursor         |-> [x |-> 0, y |-> 0],
    m_dimensions     |-> [x |-> 0, y |-> 0],
    m_texture_handle |-> NULL,
    m_max_height     |-> 0 ]

\* create: dimensions and cursor are set before the device is asked for the
\* texture; on a device failure the handle keeps its former value.
texatlas_create(a, dimensions, device_ok) ==
  LET a1 == [a EXCEPT !.m_dimensions = dimensions,
                      !.m_cursor = [x |-> 0, y |-> 0],
                      !.m_max_height = 0]
  IN  IF device_ok
        THEN [a1 EXCEPT !.m_texture_handle = "live"]
        ELSE a1

\* reset(pre): Release() without clearing the pointer.
texatlas_release(a) ==
  IF a.m_texture_handle # NULL
    THEN [a EXCEPT !.m_texture_handle = "released"]
    ELSE a

\* reset: [a, ret]
texatlas_reset(a, pre_reset, device_ok) ==
  IF ~pre_reset
    THEN [a |-> texatlas_create(a, a.m_dimensions, device_ok), ret |-> device_ok]
    ELSE [a |-> texatlas_release(a), ret |-> TRUE]

\* "go down if not enough space left"
append_wrap(a, dimensions) ==
  IF a.m_cursor.x + dimensions.x > a.m_dimensions.x
    THEN [a EXCEPT !.m_cursor = [x |-> 0, y |-> a.m_cursor.y + a.m_max_height],
                   !.m_max_height = 0]
    ELSE a

\* "not enough space left"
append_exhausted(a, dimensions) ==
  a.m_cursor.y + dimensions.y > a.m_dimensions.y

\* "ensure we set max height"
append_set_max_height(a, dimensions) ==
  IF a.m_max_height < dimensions.y
    THEN [a EXCEPT !.m_max_height = dimensions.y]
    ELSE a

\* byte offset of source pixel (x, y)
source_offset(dimensions, x, y) == dimensions.x * 4 * y + x * 4

\* the copy loop returns at the first pixel whose offset is above tex_size
append_data_short(dimensions, tex_size) ==
  \E y \in 0 .. dimensions.y - 1 : \E x \in 0 .. dimensions.x - 1 :
    source_offset(dimensions, x, y) > tex_size

\* the destination pixels the copy loop has written when it stops; offsets
\* grow in loop order, so these are the pixels at an offset <= tex_size
append_written(a, dimensions, tex_size) ==
  { <<a.m_cursor.x + x, a.m_cursor.y + y>> :
      <<x, y>> \in { p \in (0 .. dimensions.x - 1) \X (0 .. dimensions.y - 1) :
                       source_offset(dimensions, p[1], p[2]) <= tex_size } }

\* "set uv mins/maxs"
append_uv(a, dimensions) ==
  LET start_x == Frac(a.m_cursor.x, a.m_dimensions.x)
      start_y == Frac(a.m_cursor.y, a.m_dimensions.y)
      end_x   == FracAdd(start_x, Frac(dimensions.x, a.m_dimensions.x))
      end_y   == FracAdd(start_y, Frac(dimensions.y, a.m_dimensions.y))
  IN  <<start_x, start_y, end_x, end_y>>

\* an assignment that kept no other key
MapOnly(m, k, v) == [j \in {k} |-> v]

MapPut(m, k, v) == [j \in (DOMAIN m) \cup {k} |-> IF j = k THEN v ELSE m[j]]

\* texatlas_append with the "not enough space left" test made after the copy
texatlas_append_late_height_test(a, uuid, dimensions, tex_data, tex_size, lock) ==
  IF tex_data = NULL \/ tex_size = 0
    THEN [a |-> a, ret |-> FALSE, exit |-> "nodata", written |-> {}]
  ELSE
    LET a1 == append_wrap(a, dimensions)
        a2 == append_set_max_height(a1, dimensions)
    IN
    IF lock = "crash" THEN [a |-> a2, ret |-> FALSE, exit |-> "crash", written |-> {}]
    ELSE IF lock = "fail" THEN [a |-> a2, ret |-> FALSE, exit |-> "lock", written |-> {}]
    ELSE IF append_data_short(dimensions, tex_size)
      THEN [a |-> a2, ret |-> FALSE, exit |-> "short",
            written |-> append_written(a2, dimensions, tex_size)]
    ELSE IF append_exhausted(a1, dimensions)
      THEN [a |-> a1, ret |-> FALSE, exit |-> "exhausted",
            written |-> append_written(a2, dimensions, tex_size)]
    ELSE
      [a |-> [a2 EXCEPT !.m_coords = MapPut(@, uuid, append_uv(a2, dimensions)),
                        !.m_cursor.x = @ + dimensions.x],
       ret |-> TRUE, exit |-> "ok",
       written |-> append_written(a2, dimensions, tex_size)]

\* append: the result is [a |-> the atlas afterwards, ret |-> its return
\* value, exit |-> the return statement taken, written |-> the texels it
\* has stored into]; lock is what LockRect did
texatlas_append(a, uuid, dimensions, tex_data, tex_size, lock) ==
  IF tex_data = NULL \/ tex_size = 0
    THEN [a |-> a, ret |-> FALSE, exit |-> "nodata", written |-> {}]
  ELSE
    LET a1 == append_wrap(a, dimensions) IN
    IF append_exhausted(a1, dimensions)
      THEN [a |-> a1, ret |-> FALSE, exit |-> "exhausted", written |-> {}]
    ELSE
      LET a2 == append_set_max_height(a1, dimensions) IN
      IF lock = "crash" THEN [a |-> a2, ret |-> FALSE, exit |-> "crash", written |-> {}]
      ELSE IF lock = "fail" THEN [a |-> a2, ret |-> FALSE, exit |-> "lock", written |-> {}]
      ELSE IF append_data_short(dimensions, tex_size)
        THEN [a |-> a2, ret |-> FALSE, exit |-> "short",
              written |-> append_written(a2, dimensions, tex_size)]
      ELSE
        [a |-> [a2 EXCEPT !.m_coords = MapPut(@, uuid, append_uv(a2, dimensions)),
                          !.m_cursor.x = @ + dimensions.x],
         ret |-> TRUE, exit |-> "ok",
         written |-> append_written(a2, dimensions, tex_size)]

\* coords, if it never found a key
texatlas_coords_never_finds(a, uuid) == null_uv

\* coords: the stored rectangle or the all-zero one
texatlas_coords(a, uuid) ==
  IF uuid \in DOMAIN a.m_coords THEN a.m_coords[uuid] ELSE null_uv

(***************************************************************************)
(* c_texatlas: operations                                                  *)
(***************************************************************************)
\* rectangle sizes include one pixel more than the atlas in each direction
RectSizes == { [x |-> w, y |-> h] : w \in 1 .. AtlasW + 1, h \in 1 .. AtlasH + 1 }

\* the data arguments: no data, length 0, one pixel, one pixel short, exact
TexArgs(d) ==
  {[tex_data |-> NULL, tex_size |-> d.x * d.y * 4]} \cup
  {[tex_data |-> "data", tex_size |-> n] : n \in {0, 4, d.x * d.y * 4 - 4, d.x * d.y * 4}}

\* LockRect: the device may refuse; through a null handle the call is a null
\* dereference; through a released handle anything may happen.
LockOutcomes(handle) ==
  IF handle = NULL THEN {"crash"}
  ELSE IF handle = "released" THEN {"crash", "fail", "ok"}
  ELSE {"fail", "ok"}

\* create, called once on the constructed object
AtlasCreate ==
  /\ fault = "none"
  /\ atlas_call.op = "none"
  /\ \E device_ok \in BOOLEAN :
       /\ atlas' = texatlas_create(atlas, [x |-> AtlasW, y |-> AtlasH], device_ok)
       /\ atlas_call' = [op |-> "create", uuid |-> 0, exit |-> "create",
                         ret |-> device_ok, written |-> {}, exhausted |-> FALSE,
                         short |-> FALSE, uv |-> null_uv]
  /\ UNCHANGED <<atlas_packed, fault, queue_vars, dbq_vars, font_vars>>

\* one call of append and what it leaves behind
Appended(uuid, d, t, lock) ==
  /\ \E r \in {texatlas_append(atlas, uuid, d, t.tex_data, t.tex_size, lock)} :
           /\ fault' = IF r.exit = "crash" THEN "crash" ELSE "none"
           /\ atlas' = r.a
           /\ atlas_packed' =
                IF r.ret
                  THEN Append(atlas_packed, [uuid |-> uuid, uv |-> r.a.m_coords[uuid]])
                  ELSE atlas_packed
           /\ atlas_call' = [op |-> "append", uuid |-> uuid, exit |-> r.exit,
                             ret |-> r.ret, written |-> r.written,
                             exhausted |-> (append_wrap(atlas, d).m_cursor.y + d.y
                                              > atlas.m_dimensions.y),
                             short |-> (t.tex_data # NULL
                                          /\ t.tex_size < d.x * d.y * 4),
                             uv |-> null_uv]
  /\ UNCHANGED <<queue_vars, dbq_vars, font_vars>>

AtlasAppend ==
  /\ fault = "none"
  /\ \E uuid \in Keys, d \in RectSizes, lock \in LockOutcomes(atlas.m_texture_handle) :
     \E t \in TexArgs(d) : Appended(uuid, d, t, lock)

\* append with all the data of the rectangle
AtlasAppendWhole ==
  /\ fault = "none"
  /\ \E uuid \in Keys, d \in RectSizes, lock \in LockOutcomes(atlas.m_texture_handle) :
       Appended(uuid, d, [tex_data |-> "data", tex_size |-> d.x * d.y * 4], lock)

\* the keys coords is asked for: the keys appended and one that never is
CoordsKeys == 1 .. MaxKey + 1

\* coords, a const member
AtlasCoords ==
  /\ fault = "none"
  /\ \E uuid \in CoordsKeys :
       atlas_call' = [op |-> "coords", uuid |-> uuid, exit |-> "coords", ret |-> TRUE,
                      written |-> {}, exhausted |-> FALSE, short |-> FALSE,
                      uv |-> texatlas_coords(atlas, uuid)]
  /\ UNCHANGED <<atlas, atlas_packed, fault, queue_vars, dbq_vars, font_vars>>

\* the number of rectangles packed up to which the device is reset
MaxPackedAtReset == 2

\* a Release() through a handle that was released before may stop the
\* process
ReleaseOutcomes(handle) == IF handle = "released" THEN {"crash", "ok"} ELSE {"ok"}

\* reset(true), the first call of a device reset
AtlasResetPre ==
  /\ fault = "none"
  /\ atlas_call.op \in {"create", "append", "reset_post"}
  /\ Len(atlas_packed) < MaxPackedAtReset
  /\ \E release \in ReleaseOutcomes(atlas.m_texture_handle) :
       \E r \in {texatlas_reset(atlas, TRUE, TRUE)} :
         /\ fault' = IF release = "crash" THEN "crash" ELSE "none"
         /\ atlas' = IF release = "crash" THEN atlas ELSE r.a
         /\ atlas_call' = [op |-> "reset_pre", uuid |-> 0, exit |-> "reset",
                           ret |-> release = "ok", written |-> {}, exhausted |-> FALSE,
                           short |-> FALSE, uv |-> null_uv]
  /\ UNCHANGED <<atlas_packed, queue_vars, dbq_vars, font_vars>>

\* reset(false), the second call of a device reset
AtlasResetPost ==
  /\ fault = "none"
  /\ atlas_call.op = "reset_pre"
  /\ \E device_ok \in BOOLEAN :
       \E r \in {texatlas_reset(atlas, FALSE, device_ok)} :
         /\ atlas' = r.a
         /\ atlas_call' = [op |-> "reset_post", uuid |-> 0, exit |-> "reset",
                           ret |-> r.ret, written |-> {}, exhausted |-> FALSE,
                           short |-> FALSE, uv |-> null_uv]
  /\ UNCHANGED <<atlas_packed, fault, queue_vars, dbq_vars, font_vars>>

AtlasInit ==
  /\ atlas = AtlasConstructed
  /\ atlas_packed = <<>>
  /\ atlas_call = [op |-> "none", uuid |-> 0, exit |-> "none", ret |-> TRUE,
                   written |-> {}, exhausted |-> FALSE, short |-> FALSE, uv |-> null_uv]

(***************************************************************************)
(* c_renderqueue                                                           *)
(***************************************************************************)
\* IDirect3DTexture9 handles a caller passes; nullptr is "no texture"
Textures == {NULL, "texA"}

\* the texture_handle() of the fonts texts are drawn with
FontTextures == {"texA"}

u32_zero == u32(0)

\* a * k modulo 2^32, for a small factor k
u32_scale(a, k) ==
  LET lo == a[2] * k
  IN  <<(a[1] * k + (lo \div Half)) % Half, lo % Half>>

\* static_cast< uint16_t >
u16(a) == a[2]

\* std::unique_ptr< uint8_t[] >: nullptr, or storage known by its element
\* count len and by filled, the number of leading elements that hold what
\* has been stored into them; the elements after those are the zeros
\* make_unique leaves.  runs are the index values in it, one run for every
\* store of indices: [at |-> the element the run starts at, n |-> its
\* length, first |-> the 16-bit value of its lowest index, vertices |-> the
\* number of consecutive values it is made of]
null_data == [allocated |-> FALSE, len |-> u32_zero, filled |-> u32_zero, runs |-> <<>>]

make_unique(len) == [allocated |-> TRUE, len |-> len, filled |-> u32_zero, runs |-> <<>>]

\* the runs that start in the first n elements
RunsBelow(runs, n) == SelectSeq(runs, LAMBDA r : u32_lt(r.at, n))

u32_min(a, b) == IF u32_lt(b, a) THEN b ELSE a

\* memcpy that copies nothing
memcpy_nothing(dst, src, n) == dst

\* memcpy of the first n elements of src to the start of dst, a new storage
memcpy(dst, src, n) ==
  [dst EXCEPT !.filled = u32_min(n, src.filled), !.runs = RunsBelow(src.runs, n)]

\* renderbuffer_t
renderbuffer_t == [m_data |-> null_data, m_capacity |-> u32_zero, m_size |-> u32_zero]

\* IDirect3DVertexBuffer9* / IDirect3DIndexBuffer9*: state is "null" for
\* nullptr, "live" for a buffer of the device, "released" for a pointer to a
\* buffer that has been released; capacity is the element count it was
\* created with, uploaded the element count of the last upload
null_buffer == [state |-> NULL, capacity |-> u32_zero, uploaded |-> u32_zero]

\* the state the constructor leaves
QueueConstructed ==
  [ m_vertex_buffer |-> null_buffer,
    m_index_buffer  |-> null_buffer,
    m_vtxs          |-> renderbuffer_t,
    m_idxs          |-> renderbuffer_t,
    m_drawcalls     |-> <<>>,
    m_update        |-> TRUE,
    m_realloc_vtx   |-> FALSE,
    m_realloc_idx   |-> FALSE ]

\* CreateVertexBuffer / CreateIndexBuffer
gpu_buffer(capacity) == [state |-> "live", capacity |-> capacity, uploaded |-> u32_zero]

\* Release() that leaves the pointer as it is
gpu_release(h) == [h EXCEPT !.state = "released"]

\* what the device does in one call of create, update or flush: the first
\* device call that fails ("none": all succeed), and whether the use of a
\* released buffer stops the process
DeviceOutcomes ==
  [ fail : {"none", "create_vb", "create_ib", "lock_vb", "lock_ib"},
    dangling_crash : BOOLEAN ]

\* the outcomes that differ for queue q: the use of a released buffer has
\* two outcomes only where q holds one, or is left with one by a creation
\* that fails
DeviceOutcomesFor(q) ==
  { dev \in DeviceOutcomes :
      \/ dev.dangling_crash
      \/ "released" \in {q.m_vertex_buffer.state, q.m_index_buffer.state}
      \/ q.m_realloc_vtx /\ dev.fail = "create_vb"
      \/ q.m_realloc_idx /\ dev.fail = "create_ib" }

\* create locks nothing
CreateOutcomes == { dev \in DeviceOutcomes : dev.dangling_crash /\ dev.fail \notin {"lock_vb", "lock_ib"} }

DeviceOk == [fail |-> "none", dangling_crash |-> TRUE]

host_alloc(b, capacity) ==
  IF ~b.m_data.allocated
    THEN [m_data |-> make_unique(capacity), m_capacity |-> capacity, m_size |-> u32_zero]
    ELSE b

\* create: [q |-> the queue afterwards, ret |-> return value]
renderqueue_create(q, max_verts, max_indices, dev) ==
  IF q.m_vertex_buffer.state = NULL /\ dev.fail = "create_vb" THEN [q |-> q, ret |-> FALSE]
  ELSE
    LET q1 == IF q.m_vertex_buffer.state = NULL
                THEN [q EXCEPT !.m_vertex_buffer = gpu_buffer(max_verts)] ELSE q
    IN
    IF q1.m_index_buffer.state = NULL /\ dev.fail = "create_ib" THEN [q |-> q1, ret |-> FALSE]
    ELSE
      LET q2 == IF q1.m_index_buffer.state = NULL
                  THEN [q1 EXCEPT !.m_index_buffer = gpu_buffer(max_indices)] ELSE q1
      IN  [q |-> [q2 EXCEPT !.m_vtxs = host_alloc(@, max_verts),
                            !.m_idxs = host_alloc(@, max_indices)],
           ret |-> TRUE]

\* clear, if it dropped the pending-resize flags with the geometry
renderqueue_clear_drops_flags(q) ==
  [q EXCEPT !.m_vtxs.m_size = u32_zero,
            !.m_idxs.m_size = u32_zero,
            !.m_drawcalls = <<>>,
            !.m_realloc_vtx = FALSE,
            !.m_realloc_idx = FALSE]

\* clear
renderqueue_clear(q) ==
  [q EXCEPT !.m_vtxs.m_size = u32_zero,
            !.m_idxs.m_size = u32_zero,
            !.m_drawcalls = <<>>]

\* reset(pre) calls Release() through a handle that was released before:
\* the call may stop the process
reset_releases_dangling(q, pre_reset) ==
  pre_reset /\ "released" \in {q.m_vertex_buffer.state, q.m_index_buffer.state}

\* reset, if the post-reset call asked for one rectangle's worth again
renderqueue_reset_first_capacity(q, pre_reset, dev) ==
  IF ~pre_reset
    THEN renderqueue_create(q, u32(4), u32(6), dev)
    ELSE [q |-> [q EXCEPT !.m_vertex_buffer = null_buffer,
                          !.m_index_buffer = null_buffer],
          ret |-> TRUE]

\* reset: [q, ret]
renderqueue_reset(q, pre_reset, dev) ==
  IF ~pre_reset
    THEN renderqueue_create(q, q.m_vtxs.m_capacity, q.m_idxs.m_capacity, dev)
    ELSE [q |-> [q EXCEPT !.m_vertex_buffer = null_buffer,
                          !.m_index_buffer = null_buffer],
          ret |-> TRUE]

\* while ( size + to_add > capacity ) capacity = capacity * 2;
\* the capacity the loop ends with, or <<>> when it never ends
RECURSIVE grow_capacity(_, _)
grow_capacity(needed, capacity) ==
  IF ~u32_lt(capacity, needed) THEN capacity
  ELSE IF capacity = u32_zero THEN <<>>
  ELSE grow_capacity(needed, u32_add(capacity, capacity))

\* the test with >= in the place of >
buffer_needs_growth_when_full(b, to_add) == u32_le(b.m_capacity, u32_add(b.m_size, to_add))

buffer_needs_growth(b, to_add) == u32_lt(b.m_capacity, u32_add(b.m_size, to_add))

\* one buffer's half of ensure_buffers_capacity:
\* [b |-> the buffer afterwards, hang |-> the loop never ends]
ensure_buffer_capacity(b, to_add) ==
  IF ~buffer_needs_growth(b, to_add) THEN [b |-> b, hang |-> FALSE]
  ELSE
    LET capacity == grow_capacity(u32_add(b.m_size, to_add), b.m_capacity)
    IN  IF capacity = <<>> THEN [b |-> b, hang |-> TRUE]
        ELSE [b |-> [b EXCEPT !.m_capacity = capacity,
                              !.m_data = memcpy(make_unique(capacity), b.m_data, b.m_size)],
              hang |-> FALSE]

\* the memcpy of a growth reads m_size elements out of a storage that has
\* fewer
copy_overreads(b, to_add) ==
  /\ buffer_needs_growth(b, to_add)
  /\ grow_capacity(u32_add(b.m_size, to_add), b.m_capacity) # <<>>
  /\ u32_lt(b.m_data.len, b.m_size)

\* ensure_buffers_capacity: [q, fault]
ensure_buffers_capacity(q, vertices_to_add, indices_to_add) ==
  LET vtxs == ensure_buffer_capacity(q.m_vtxs, vertices_to_add) IN
  IF vtxs.hang THEN [q |-> q, fault |-> "hang"]
  ELSE
    LET q1 == [q EXCEPT !.m_vtxs = vtxs.b,
                        !.m_realloc_vtx = @ \/ buffer_needs_growth(q.m_vtxs, vertices_to_add)]
        idxs == ensure_buffer_capacity(q1.m_idxs, indices_to_add)
    IN
    IF idxs.hang THEN [q |-> q1, fault |-> "hang"]
    ELSE [q |-> [q1 EXCEPT !.m_idxs = idxs.b,
                           !.m_realloc_idx = @ \/ buffer_needs_growth(q.m_idxs, indices_to_add)],
          fault |-> "none"]

\* begin_batch that never finds a command to extend
begin_batch_never(q, texture_handle) == u32_zero

\* begin_batch that does not compare the texture handles
begin_batch_any_texture(q, texture_handle) ==
  IF q.m_drawcalls # <<>>
     /\ q.m_drawcalls[Len(q.m_drawcalls)].m_kind = "CALL_TRI"
    THEN q.m_drawcalls[Len(q.m_drawcalls)].m_vertices
    ELSE u32_zero

\* begin_batch
begin_batch(q, texture_handle) ==
  IF q.m_drawcalls # <<>>
     /\ q.m_drawcalls[Len(q.m_drawcalls)].m_kind = "CALL_TRI"
     /\ q.m_drawcalls[Len(q.m_drawcalls)].m_texture_handle = texture_handle
    THEN q.m_drawcalls[Len(q.m_drawcalls)].m_vertices
    ELSE u32_zero

\* end_batch that stores the new counts over those of the last command
end_batch_overwrites(q, additional_indices, vertices, indices, primitives, texture_handle) ==
  LET n == Len(q.m_drawcalls) IN
  IF additional_indices = u32_zero
    THEN [q EXCEPT !.m_drawcalls =
            Append(@, [ m_kind           |-> "CALL_TRI",
                        m_texture_handle |-> texture_handle,
                        m_primitives     |-> primitives,
                        m_vertices       |-> vertices,
                        m_indices        |-> indices ]),
                   !.m_update = TRUE]
    ELSE [q EXCEPT !.m_drawcalls[n].m_vertices = vertices,
                   !.m_drawcalls[n].m_indices = indices,
                   !.m_drawcalls[n].m_primitives = primitives,
                   !.m_update = TRUE]

\* end_batch that does not ask for an upload
end_batch_no_update(q, additional_indices, vertices, indices, primitives, texture_handle) ==
  LET n == Len(q.m_drawcalls) IN
  IF additional_indices = u32_zero
    THEN [q EXCEPT !.m_drawcalls =
            Append(@, [ m_kind           |-> "CALL_TRI",
                        m_texture_handle |-> texture_handle,
                        m_primitives     |-> primitives,
                        m_vertices       |-> vertices,
                        m_indices        |-> indices ])]
    ELSE [q EXCEPT !.m_drawcalls[n].m_vertices = u32_add(@, vertices),
                   !.m_drawcalls[n].m_indices = u32_add(@, indices),
                   !.m_drawcalls[n].m_primitives = u32_add(@, primitives)]

\* end_batch
end_batch(q, additional_indices, vertices, indices, primitives, texture_handle) ==
  LET n == Len(q.m_drawcalls) IN
  IF additional_indices = u32_zero
    THEN [q EXCEPT !.m_drawcalls =
            Append(@, [ m_kind           |-> "CALL_TRI",
                        m_texture_handle |-> texture_handle,
                        m_primitives     |-> primitives,
                        m_vertices       |-> vertices,
                        m_indices        |-> indices ]),
                   !.m_update = TRUE]
    ELSE [q EXCEPT !.m_drawcalls[n].m_vertices = u32_add(@, vertices),
                   !.m_drawcalls[n].m_indices = u32_add(@, indices),
                   !.m_drawcalls[n].m_primitives = u32_add(@, primitives),
                   !.m_update = TRUE]

\* n elements stored at m_size: the filled run grows when the elements are
\* stored at its end or inside it, and never past the end of the storage
stored(b, n) ==
  LET end == u32_add(b.m_size, n) IN
  IF u32_le(b.m_size, b.m_data.filled) /\ u32_lt(b.m_data.filled, end)
    THEN [b.m_data EXCEPT !.filled = u32_min(end, b.m_data.len)]
    ELSE b.m_data

\* static_cast< uint16_t > ( additional_indices + j ), one vertex too far
stored_index_from_one(additional_indices, j) == u16(u32_add(additional_indices, u32(j + 1)))

\* static_cast< uint16_t > ( additional_indices + j )
stored_index(additional_indices, j) == u16(u32_add(additional_indices, u32(j)))

\* the indices of a submission stored at m_size: they are the values
\* additional_indices + j for the vertices j of the submission, each cut to
\* 16 bits, over whatever the storage held from there on
stored_indices(b, additional_indices, vertices, indices) ==
  LET d == stored(b, indices) IN
  IF indices = u32_zero THEN d
  ELSE [d EXCEPT !.runs = Append(RunsBelow(@, b.m_size),
                                 [ at       |-> b.m_size,
                                   n        |-> indices,
                                   first    |-> stored_index(additional_indices, 0),
                                   vertices |-> vertices ])]

\* the storing of geometry: both sizes advance
store_geometry(q, additional_indices, vertices, indices) ==
  [q EXCEPT !.m_vtxs.m_data = stored(q.m_vtxs, vertices),
            !.m_idxs.m_data = stored_indices(q.m_idxs, additional_indices, vertices, indices),
            !.m_vtxs.m_size = u32_add(@, vertices),
            !.m_idxs.m_size = u32_add(@, indices)]

\* the body shared by push_gradient_rectangle, push_filled_triangle and
\* push_line: [q, fault]
push_shape(q, vertices, indices, primitives, texture_handle) ==
  LET e == ensure_buffers_capacity(q, u32(vertices), u32(indices)) IN
  IF e.fault # "none" THEN e
  ELSE
    LET additional_indices == begin_batch(e.q, texture_handle)
        q1 == store_geometry(e.q, additional_indices, u32(vertices), u32(indices))
    IN  [q |-> end_batch(q1, additional_indices, u32(vertices), u32(indices),
                         u32(primitives), texture_handle),
         fault |-> "none"]

\* ensure_buffers_capacity reads past the end of a storage
ensure_overreads(q, vertices_to_add, indices_to_add) ==
  \/ copy_overreads(q.m_vtxs, vertices_to_add)
  \/ /\ ~ensure_buffer_capacity(q.m_vtxs, vertices_to_add).hang
     /\ copy_overreads(q.m_idxs, indices_to_add)

\* the ways a submission of the given counts ends, r being its result when
\* nothing is noticed: a read past the end of a storage may stop the process
PushOutcomes(q, vertices, indices, r) ==
  IF r.fault = "none" /\ ensure_overreads(q, u32(vertices), u32(indices))
    THEN {r, [r EXCEPT !.fault = "crash"]}
    ELSE {r}

push_gradient_rectangle(q, texture_handle) == push_shape(q, 4, 6, 2, texture_handle)

push_filled_rectangle(q, texture_handle) == push_gradient_rectangle(q, texture_handle)

push_filled_triangle(q, texture_handle) == push_shape(q, 3, 3, 1, texture_handle)

push_line(q) == push_shape(q, 4, 6, 2, NULL)

\* push_scissor
push_scissor(q, position, size) ==
  [q EXCEPT !.m_drawcalls =
     Append(@, [m_kind |-> "CALL_SCISSOR", m_position |-> position, m_size |-> size])]

\* a text: runs of characters of one class; "glyph" is a character above
\* ' ', "control" one below ' ' other than '\n'
CharClasses == {"glyph", "space", "newline", "control"}

RECURSIVE text_count(_, _)
\* the number of characters of the text whose class is in classes
text_count(text, classes) ==
  IF text = <<>> THEN 0
  ELSE (IF Head(text).cls \in classes THEN Head(text).n ELSE 0)
       + text_count(Tail(text), classes)

text_size(text) == text_count(text, CharClasses)

\* push_text that makes a quad for a space too
push_text_quads_for_spaces(q, texture_handle, text) ==
  LET e == ensure_buffers_capacity(q, u32_scale(u32(text_size(text)), 4),
                                      u32_scale(u32(text_size(text)), 6))
  IN
  IF e.fault # "none" THEN e
  ELSE
    LET additional_indices == begin_batch(e.q, texture_handle)
        glyphs          == u32(text_count(text, {"glyph", "space"}))
        cont_vertices   == u32_scale(glyphs, 4)
        cont_indices    == u32_scale(glyphs, 6)
        cont_primitives == u32_scale(glyphs, 2)
        q1 == store_geometry(e.q, additional_indices, cont_vertices, cont_indices)
    IN  [q |-> end_batch(q1, additional_indices, cont_vertices, cont_indices,
                         cont_primitives, texture_handle),
         fault |-> "none"]

\* push_text: [q, fault]; the loop stores 4 vertices and 6 indices for each
\* character that is neither '\n', nor below ' ', nor ' '
push_text(q, texture_handle, text) ==
  LET e == ensure_buffers_capacity(q, u32_scale(u32(text_size(text)), 4),
                                      u32_scale(u32(text_size(text)), 6))
  IN
  IF e.fault # "none" THEN e
  ELSE
    LET additional_indices == begin_batch(e.q, texture_handle)
        glyphs          == u32(text_count(text, {"glyph"}))
        cont_vertices   == u32_scale(glyphs, 4)
        cont_indices    == u32_scale(glyphs, 6)
        cont_primitives == u32_scale(glyphs, 2)
        q1 == store_geometry(e.q, additional_indices, cont_vertices, cont_indices)
    IN  [q |-> end_batch(q1, additional_indices, cont_vertices, cont_indices,
                         cont_primitives, texture_handle),
         fault |-> "none"]

\* the copy loop of push_text stores past the end of a buffer's storage:
\* size + per * count, not reduced modulo 2^32, is above the capacity
store_overruns(b, count, per) ==
  LET lo == b.m_size[2] + (count % Half) * per
      hi == b.m_size[1] + (count \div Half) * per + (lo \div Half)
  IN  u32_lt(b.m_capacity, <<hi, lo % Half>>)

push_text_overruns(q, text) ==
  LET e == ensure_buffers_capacity(q, u32_scale(u32(text_size(text)), 4),
                                      u32_scale(u32(text_size(text)), 6))
  IN  /\ e.fault = "none"
      /\ \/ store_overruns(e.q.m_vtxs, text_count(text, {"glyph"}), 4)
         \/ store_overruns(e.q.m_idxs, text_count(text, {"glyph"}), 6)

\* push_text stores past the end of a storage or reads past the end of one
push_text_out_of_bounds(q, text) ==
  \/ push_text_overruns(q, text)
  \/ /\ push_text(q, NULL, text).fault = "none"
     /\ ensure_overreads(q, u32_scale(u32(text_size(text)), 4),
                             u32_scale(u32(text_size(text)), 6))

\* one half of update's "checking realloc": Release() on the handle held,
\* then the creation of a buffer of the host buffer's capacity.
\* [h |-> handle afterwards, done |-> created, fault]
update_realloc(h, capacity, create_ok, dangling_crash) ==
  IF h.state = NULL THEN [h |-> h, done |-> FALSE, fault |-> "crash"]
  ELSE IF h.state = "released" /\ dangling_crash
    THEN [h |-> h, done |-> FALSE, fault |-> "crash"]
  ELSE IF ~create_ok THEN [h |-> gpu_release(h), done |-> FALSE, fault |-> "none"]
  ELSE [h |-> gpu_buffer(capacity), done |-> TRUE, fault |-> "none"]

\* Lock() through the handle held: "ok", "fail" or "crash"
update_lock(h, lock_ok, dangling_crash) ==
  IF h.state = NULL THEN "crash"
  ELSE IF h.state = "released" /\ dangling_crash THEN "crash"
  ELSE IF ~lock_ok THEN "fail"
  ELSE "ok"

\* update: [q, fault]
renderqueue_update(q, dev) ==
  LET rv == IF q.m_realloc_vtx
              THEN update_realloc(q.m_vertex_buffer, q.m_vtxs.m_capacity,
                                  dev.fail # "create_vb", dev.dangling_crash)
              ELSE [h |-> q.m_vertex_buffer, done |-> TRUE, fault |-> "none"]
      q1 == [q EXCEPT !.m_vertex_buffer = rv.h,
                      !.m_realloc_vtx = @ /\ ~rv.done]
  IN
  IF rv.fault # "none" THEN [q |-> q, fault |-> rv.fault]
  ELSE IF ~rv.done THEN [q |-> q1, fault |-> "none"]
  ELSE
    LET ri == IF q1.m_realloc_idx
                THEN update_realloc(q1.m_index_buffer, q1.m_idxs.m_capacity,
                                    dev.fail # "create_ib", dev.dangling_crash)
                ELSE [h |-> q1.m_index_buffer, done |-> TRUE, fault |-> "none"]
        q2 == [q1 EXCEPT !.m_index_buffer = ri.h,
                         !.m_realloc_idx = @ /\ ~ri.done]
    IN
    IF ri.fault # "none" THEN [q |-> q1, fault |-> ri.fault]
    ELSE IF ~ri.done THEN [q |-> q2, fault |-> "none"]
    ELSE
      LET lv == update_lock(q2.m_vertex_buffer, dev.fail # "lock_vb", dev.dangling_crash)
          li == update_lock(q2.m_index_buffer, dev.fail # "lock_ib", dev.dangling_crash)
      IN
      IF lv = "crash" THEN [q |-> q2, fault |-> "crash"]
      ELSE IF lv = "fail" THEN [q |-> q2, fault |-> "none"]
      ELSE IF li = "crash" THEN [q |-> q2, fault |-> "crash"]
      ELSE IF li = "fail" THEN [q |-> q2, fault |-> "none"]
      ELSE [q |-> [q2 EXCEPT !.m_vertex_buffer.uploaded = q2.m_vtxs.m_size,
                             !.m_index_buffer.uploaded = q2.m_idxs.m_size,
                             !.m_update = FALSE],
            fault |-> "none"]

\* the device operation flush issues for one command, at the running cursors;
\* the SetTexture and the DrawIndexedPrimitive of a TriBatch are one record
flush_command(cmd, vertex_idx, index_idx) ==
  IF cmd.m_kind = "CALL_TRI"
    THEN [ op           |-> "DrawIndexedPrimitive",
           texture      |-> cmd.m_texture_handle,
           base_vertex  |-> vertex_idx,
           num_vertices |-> cmd.m_vertices,
           start_index  |-> index_idx,
           primitives   |-> cmd.m_primitives ]
  ELSE IF cmd.m_kind = "CALL_SCISSOR"
    THEN [ op |-> "SetScissorRect", position |-> cmd.m_position, size |-> cmd.m_size ]
  ELSE IF cmd.m_kind = "CALL_VTXSHADER"
    THEN [ op |-> "SetVertexShader", shader |-> cmd.m_shader_handle ]
  ELSE [ op |-> "SetPixelShader", shader |-> cmd.m_shader_handle ]

\* the cursors after one command if the index cursor moved by the vertex
\* count
flush_advance_by_vertices(cmd, cursors) ==
  IF cmd.m_kind = "CALL_TRI"
    THEN [ vertex_idx |-> u32_add(cursors.vertex_idx, cmd.m_vertices),
           index_idx  |-> u32_add(cursors.index_idx, cmd.m_vertices) ]
    ELSE cursors

\* the cursors after one command
flush_advance(cmd, cursors) ==
  IF cmd.m_kind = "CALL_TRI"
    THEN [ vertex_idx |-> u32_add(cursors.vertex_idx, cmd.m_vertices),
           index_idx  |-> u32_add(cursors.index_idx, cmd.m_indices) ]
    ELSE cursors

RECURSIVE flush_commands(_, _, _)
\* "render commands": the device operations for commands k .. Len(drawcalls)
flush_commands(drawcalls, k, cursors) ==
  IF k > Len(drawcalls) THEN <<>>
  ELSE <<flush_command(drawcalls[k], cursors.vertex_idx, cursors.index_idx)>>
       \o flush_commands(drawcalls, k + 1, flush_advance(drawcalls[k], cursors))

flush_start == [vertex_idx |-> u32_zero, index_idx |-> u32_zero]

\* flush that empties the command list once it has drawn it
renderqueue_flush_consumes(q, dev) ==
  IF q.m_drawcalls = <<>>
    THEN [q |-> q, fault |-> "none", ops |-> <<>>, updated |-> FALSE]
  ELSE
    LET u == IF q.m_update THEN renderqueue_update(q, dev) ELSE [q |-> q, fault |-> "none"]
    IN  IF u.fault # "none"
          THEN [q |-> u.q, fault |-> u.fault, ops |-> <<>>, updated |-> q.m_update]
        ELSE IF /\ "released" \in {u.q.m_vertex_buffer.state, u.q.m_index_buffer.state}
                /\ dev.dangling_crash
          THEN [q |-> u.q, fault |-> "crash", ops |-> <<>>, updated |-> q.m_update]
          ELSE [q |-> [u.q EXCEPT !.m_drawcalls = <<>>], fault |-> "none",
                ops |-> flush_commands(u.q.m_drawcalls, 1, flush_start),
                updated |-> q.m_update]

\* flush: [q, fault, ops |-> the device operations issued, updated |-> update() ran]
renderqueue_flush(q, dev) ==
  IF q.m_drawcalls = <<>>
    THEN [q |-> q, fault |-> "none", ops |-> <<>>, updated |-> FALSE]
  ELSE
    LET u == IF q.m_update THEN renderqueue_update(q, dev) ELSE [q |-> q, fault |-> "none"]
    IN  IF u.fault # "none"
          THEN [q |-> u.q, fault |-> u.fault, ops |-> <<>>, updated |-> q.m_update]
        ELSE IF /\ "released" \in {u.q.m_vertex_buffer.state, u.q.m_index_buffer.state}
                /\ dev.dangling_crash
          THEN [q |-> u.q, fault |-> "crash", ops |-> <<>>, updated |-> q.m_update]
          ELSE [q |-> u.q, fault |-> "none",
                ops |-> flush_commands(u.q.m_drawcalls, 1, flush_start),
                updated |-> q.m_update]

(***************************************************************************)
(* c_renderqueue: operations                                               *)
(***************************************************************************)
\* the capacities create is called with: none, and one rectangle's worth
CreateCaps == { <<0, 0>>, <<4, 6>> }

\* the texts drawn: one space, two lines with a glyph, a control character
\* and a space, one glyph followed by 2^30 - 1 spaces, and 16384 glyphs,
\* which are 65536 vertices
Texts ==
  { <<[cls |-> "space", n |-> 1]>>,
    <<[cls |-> "glyph", n |-> 1], [cls |-> "newline", n |-> 1],
      [cls |-> "control", n |-> 1], [cls |-> "space", n |-> 1]>>,
    <<[cls |-> "glyph", n |-> 1], [cls |-> "space", n |-> 1073741823]>>,
    <<[cls |-> "glyph", n |-> 16384]>> }

QueueCall(op, texture, text, ret, ops) ==
  [op |-> op, texture |-> texture, text |-> text, ret |-> ret, ops |-> ops]

\* a submission that returned: the queue, the history and the call record
Submitted(r, op, texture, text) ==
  /\ queue' = r.q
  /\ fault' = r.fault
  /\ queue_hist' = IF r.fault = "none"
                     THEN Append(queue_hist, [op |-> op, texture |-> texture, text |-> text])
                     ELSE queue_hist
  /\ queue_calls' = queue_calls + 1
  /\ queue_call' = QueueCall(op, texture, text, r.fault = "none", <<>>)
  /\ UNCHANGED <<atlas_vars, dbq_vars, font_vars>>

QueueCreate ==
  /\ fault = "none"
  /\ queue_calls < MaxOps
  /\ queue_calls' = queue_calls + 1
  /\ \E caps \in CreateCaps, dev \in CreateOutcomes :
       LET r == renderqueue_create(queue, u32(caps[1]), u32(caps[2]), dev)
       IN  /\ queue' = r.q
           /\ queue_call' = QueueCall("create", NULL, <<>>, r.ret, <<>>)
  /\ UNCHANGED <<queue_hist, fault, atlas_vars, dbq_vars, font_vars>>

QueuePushRectangle ==
  /\ fault = "none"
  /\ queue_calls < MaxOps
  /\ \E texture \in Textures :
       \E r \in PushOutcomes(queue, 4, 6, push_filled_rectangle(queue, texture)) :
         Submitted(r, "rectangle", texture, <<>>)

QueuePushTriangle ==
  /\ fault = "none"
  /\ queue_calls < MaxOps
  /\ \E texture \in Textures :
       \E r \in PushOutcomes(queue, 3, 3, push_filled_triangle(queue, texture)) :
         Submitted(r, "triangle", texture, <<>>)

QueuePushLine ==
  /\ fault = "none"
  /\ queue_calls < MaxOps
  /\ \E r \in PushOutcomes(queue, 4, 6, push_line(queue)) :
       Submitted(r, "line", NULL, <<>>)

\* a text whose geometry overruns the storage, or whose growth reads past
\* the end of one, either stops the process or goes unnoticed
QueuePushText ==
  /\ fault = "none"
  /\ queue_calls < MaxOps
  /\ \E texture \in FontTextures, text \in Texts :
       LET r == push_text(queue, texture, text) IN
       \/ Submitted(r, "text", texture, text)
       \/ /\ push_text_out_of_bounds(queue, text)
          /\ Submitted([r EXCEPT !.fault = "crash"], "text", texture, text)

QueuePushScissor ==
  /\ fault = "none"
  /\ queue_calls < MaxOps
  /\ Submitted([q |-> push_scissor(queue, [x |-> 0, y |-> 0], [x |-> 1, y |-> 1]),
                fault |-> "none"], "scissor", NULL, <<>>)

QueueClear ==
  /\ fault = "none"
  /\ queue_calls < MaxOps
  /\ queue_calls' = queue_calls + 1
  /\ queue' = renderqueue_clear(queue)
  /\ queue_hist' = <<>>
  /\ queue_call' = QueueCall("clear", NULL, <<>>, TRUE, <<>>)
  /\ UNCHANGED <<fault, atlas_vars, dbq_vars, font_vars>>

QueueFlush ==
  /\ fault = "none"
  /\ queue_calls < MaxOps
  /\ queue_calls' = queue_calls + 1
  /\ \E dev \in DeviceOutcomesFor(queue) :
       LET r == renderqueue_flush(queue, dev)
       IN  /\ queue' = r.q
           /\ fault' = r.fault
           /\ queue_call' = QueueCall("flush", NULL, <<>>, r.updated, r.ops)
  /\ UNCHANGED <<queue_hist, atlas_vars, dbq_vars, font_vars>>

QueueReset ==
  /\ fault = "none"
  /\ queue_calls < MaxOps
  /\ queue_calls' = queue_calls + 1
  /\ \E pre_reset \in BOOLEAN, dev \in CreateOutcomes :
       LET r == renderqueue_reset(queue, pre_reset, dev)
           op == IF pre_reset THEN "reset_pre" ELSE "reset_post"
       IN  \/ /\ queue' = r.q
              /\ queue_call' = QueueCall(op, NULL, <<>>, r.ret, <<>>)
              /\ UNCHANGED fault
           \/ /\ reset_releases_dangling(queue, pre_reset)
              /\ fault' = "crash"
              /\ queue_call' = QueueCall(op, NULL, <<>>, FALSE, <<>>)
              /\ UNCHANGED queue
  /\ UNCHANGED <<queue_hist, atlas_vars, dbq_vars, font_vars>>

QueueInit ==
  /\ queue = QueueConstructed
  /\ queue_hist = <<>>
  /\ queue_calls = 0
  /\ queue_call = QueueCall("none", NULL, <<>>, TRUE, <<>>)

(***************************************************************************)
(* c_fontwrapper                                                           *)
(*                                                                         *)
(* The GDI rasterizer and the device are the environment.  A font of the   *)
(* rasterizer is a record                                                  *)
(*   ranges       the GLYPHSET: a sequence of [wcLow, cGlyphs]             *)
(*   family       the name it is created by                                *)
(*   scalable     FALSE for a raster font, which has the heights below     *)
(*   heights      the glyph heights a raster font comes in                 *)
(*   height       the glyph height GDI uses when a height of 0 is asked    *)
(*                for                                                      *)
(*   wide         code points whose glyph is twice as wide as the others   *)
(*   unmeasurable code points for which GetTextExtentPoint32W fails        *)
(* m_scale is a fixed-point number, m_scale / ScaleOne; a texture          *)
(* coordinate is an exact fraction; a text is a sequence of code points.   *)
(***************************************************************************)
ScaleOne == 65536

\* GetDeviceCaps(context, LOGPIXELSY)
LogPixelsY == 96

\* MulDiv of non-negative numbers: a * b / c rounded to the nearest integer
MulDiv(a, b, c) == (2 * a * b + c) \div (2 * c)

\* the state the constructor leaves
FontConstructed ==
  [ m_coords         |-> [ch \in {} |-> null_uv],
    m_family         |-> "",
    m_texture_handle |-> [state |-> NULL, width |-> 0, height |-> 0],
    m_scale          |-> 0,
    m_width          |-> 0,
    m_height         |-> 0,
    m_spacing        |-> 0,
    m_size           |-> 0 ]

\* the character height create_gdi_font asks CreateFontA for
gdi_font_height(f) == MulDiv(f.m_size, (LogPixelsY * f.m_scale) \div ScaleOne, 72)

\* |a - b|
Distance(a, b) == IF a < b THEN b - a ELSE a - b

\* the glyph height of the font GDI selects for the height asked for: the
\* default height for 0, any height of a scalable font, the nearest height
\* a raster font has
raster_height(env, asked) ==
  IF asked = 0 THEN env.height
  ELSE IF env.scalable THEN asked
  ELSE CHOOSE h \in env.heights :
         \A g \in env.heights :
           \/ Distance(h, asked) < Distance(g, asked)
           \/ Distance(h, asked) = Distance(g, asked) /\ h <= g

\* the widths of a long glyph, in glyph heights
LongGlyph == 8

\* GetTextExtentPoint32W for one character of the selected font
glyph_extent(env, asked, ch) ==
  LET h == raster_height(env, asked) IN
  [ cx |-> IF ch \in env.long THEN LongGlyph * h
           ELSE IF ch \in env.wide THEN h ELSE (h + 1) \div 2,
    cy |-> h ]

RECURSIVE glyph_points(_, _)
\* the code points of ranges r .. of the GLYPHSET, in the order of the loops
glyph_points(ranges, r) ==
  IF r > Len(ranges) THEN <<>>
  ELSE [k \in 1 .. ranges[r].cGlyphs |-> ranges[r].wcLow + k - 1]
       \o glyph_points(ranges, r + 1)

\* the UV rectangle stored for a glyph placed at (x, y)
glyph_uv(f, x, y, size) ==
  << Frac(x - f.m_spacing, f.m_width), Frac(y, f.m_height),
     Frac(x + size.cx + f.m_spacing, f.m_width), Frac(y + size.cy, f.m_height) >>

RECURSIVE place_glyphs(_, _, _, _, _, _, _, _)
\* "iterate glyphs" for the code points k .. of points, the pen at (x, y);
\* draw_fails: ExtTextOutW fails for the glyph drawn after `drawn` others.
\* [ret |-> 0, 1 or 2, m_coords]
place_glyphs(f, env, measure, draw_fails, points, k, pen, drawn) ==
  IF k > Len(points) THEN [ret |-> 0, m_coords |-> f.m_coords]
  ELSE IF points[k] \in env.unmeasurable
    THEN place_glyphs(f, env, measure, draw_fails, points, k + 1, pen, drawn)
  ELSE
    LET size == glyph_extent(env, gdi_font_height(f), points[k])
        wrap == pen.x + size.cx + f.m_spacing > f.m_width
        x == IF wrap THEN f.m_spacing ELSE pen.x
        y == IF wrap THEN pen.y + size.cy + 1 ELSE pen.y
        next == [x |-> x + size.cx + 2 * f.m_spacing, y |-> y]
    IN
    IF y + size.cy > f.m_height THEN [ret |-> 2, m_coords |-> f.m_coords]
    ELSE IF measure
      THEN place_glyphs(f, env, measure, draw_fails, points, k + 1, next, drawn)
    ELSE IF draw_fails /\ drawn = 1 THEN [ret |-> 1, m_coords |-> f.m_coords]
    ELSE place_glyphs([f EXCEPT !.m_coords = MapPut(@, points[k], glyph_uv(f, x, y, size))],
                      env, measure, draw_fails, points, k + 1, next, drawn + 1)

\* what the rasterizer does in one pass of paint_or_measure_alphabet:
\* "none" (every call succeeds), "gdi" (GetTextExtentPoint32W fails for 'x'
\* or GetFontUnicodeRanges fails), "draw" (ExtTextOutW fails for the second
\* glyph drawn)
RasterFaults == {"none", "gdi", "draw"}

\* the result of a pass whose glyph loops gave r
alphabet_result(f, r) == [f |-> [f EXCEPT !.m_coords = r.m_coords], ret |-> r.ret]

\* the glyph loops of a pass, m_spacing set
alphabet_glyphs(f, env, measure, raster) ==
  alphabet_result(f, place_glyphs(f, env, measure, raster = "draw",
                                  glyph_points(env.ranges, 1), 1,
                                  [x |-> f.m_spacing, y |-> 0], 0))

\* paint_or_measure_alphabet: [f, ret]
paint_or_measure_alphabet(f, env, measure, raster) ==
  IF raster = "gdi" THEN [f |-> f, ret |-> 1]
  ELSE alphabet_glyphs([f EXCEPT !.m_spacing =
                          (3 * glyph_extent(env, gdi_font_height(f), 120).cy + 9) \div 10],
                       env, measure, raster)

RECURSIVE fit_atlas(_, _, _)
\* the body of the doubling loop, m the measuring pass of its condition
fit_atlas_measured(m, env, raster) ==
  IF m.ret = 2
    THEN fit_atlas([m.f EXCEPT !.m_width = 2 * @, !.m_height = 2 * @], env, raster)
    ELSE m

\* "ensure our atlas is big enough": doubles the side while a measuring
\* pass returns 2.  [f, ret |-> what the last pass returned]
fit_atlas(f, env, raster) ==
  fit_atlas_measured(paint_or_measure_alphabet(f, env, TRUE, raster), env, raster)

RECURSIVE shrink_font(_, _, _, _)
\* the condition of the do-while, m its measuring pass for the font f.  A
\* pass that returns 2 for a font created with the height 0 returns 2 for
\* every smaller scale, which all give the height 0: the loop never ends.
shrink_font_measured(f, m, env, raster, scales) ==
  IF m.ret # 2 THEN [f |-> m.f, ret |-> m.ret, scales |-> scales, hang |-> FALSE]
  ELSE IF gdi_font_height(f) = 0
    THEN [f |-> m.f, ret |-> 2, scales |-> scales, hang |-> TRUE]
  ELSE shrink_font([m.f EXCEPT !.m_scale = (@ * 9) \div 10], env, raster, scales)

\* the do-while that multiplies the scale by 0.9 until a measuring pass no
\* longer returns 2, from the iteration that measures with the scale of f.
\* [f, ret, scales |-> the scales measured with, hang |-> the loop never ends]
shrink_font(f, env, raster, scales) ==
  shrink_font_measured(f, paint_or_measure_alphabet(f, env, TRUE, raster), env, raster,
                       Append(scales, f.m_scale))

\* what the device does in one create_ex: every call succeeds, or the one
\* that fails: GetDeviceCaps, CreateTexture, CreateDIBSection, LockRect or
\* UnlockRect
FontDeviceFaults == {"none", "caps", "texture", "dib", "lock"}

\* Release() through the pointer held, which stays as it is
texture_release(h) == [h EXCEPT !.state = "released"]

\* what create_ex has done when it returns or stops: [f, ret, fault,
\* fitted |-> the side the doubling loop ended with, scales |-> the scales
\* of the shrinking loop]
create_ex_result(f, ret, stop, fitted, scales) ==
  [f |-> f, ret |-> ret, fault |-> stop, fitted |-> fitted, scales |-> scales]

\* create_ex from "to note: paint_alphabet returns 0 on success", p the
\* drawing pass
create_ex_painted(p, dev, fitted, scales) ==
  IF p.ret # 0 THEN create_ex_result(p.f, FALSE, "none", fitted, scales)
  ELSE IF dev.fault = "lock" THEN create_ex_result(p.f, FALSE, "none", fitted, scales)
  ELSE create_ex_result(p.f, TRUE, "none", fitted, scales)

\* create_ex from "create dx9 tex", f the object with the texture created
create_ex_texture(f, env, dev, paint, fitted, scales) ==
  IF dev.fault = "dib" THEN create_ex_result(f, FALSE, "none", fitted, scales)
  ELSE create_ex_painted(paint_or_measure_alphabet(f, env, FALSE, paint), dev, fitted,
                         scales)

\* create_ex after "ensure our atlas isn't above max texture cap"
create_ex_shrunk(shrunk, env, dev, paint, fitted) ==
  IF shrunk.hang THEN create_ex_result(shrunk.f, FALSE, "hang", fitted, shrunk.scales)
  ELSE IF dev.fault = "texture"
    THEN create_ex_result(shrunk.f, FALSE, "none", fitted, shrunk.scales)
  ELSE create_ex_texture([shrunk.f EXCEPT !.m_texture_handle =
                            [state |-> "live", width |-> shrunk.f.m_width,
                             height |-> shrunk.f.m_height]],
                         env, dev, paint, fitted, shrunk.scales)

\* create_ex after the doubling loop, if the atlas kept the side the loop
\* ended with
create_ex_fitted_unclamped(fit, env, dev, measure, paint) ==
  IF dev.fault = "caps" THEN create_ex_result(fit.f, FALSE, "none", fit.f.m_width, <<>>)
  ELSE IF fit.f.m_width > dev.max_texture
    THEN create_ex_shrunk(
           shrink_font([fit.f EXCEPT
                          !.m_scale = (dev.max_texture * ScaleOne) \div fit.f.m_width],
                       env, measure, <<>>),
           env, dev, paint, fit.f.m_width)
  ELSE create_ex_shrunk([f |-> fit.f, ret |-> fit.ret, scales |-> <<>>, hang |-> FALSE],
                        env, dev, paint, fit.f.m_width)

\* create_ex after the doubling loop, which ended with fit
create_ex_fitted(fit, env, dev, measure, paint) ==
  IF dev.fault = "caps" THEN create_ex_result(fit.f, FALSE, "none", fit.f.m_width, <<>>)
  ELSE IF fit.f.m_width > dev.max_texture
    THEN create_ex_shrunk(
           shrink_font([fit.f EXCEPT
                          !.m_scale = (dev.max_texture * ScaleOne) \div fit.f.m_width,
                          !.m_width = dev.max_texture,
                          !.m_height = dev.max_texture],
                       env, measure, <<>>),
           env, dev, paint, fit.f.m_width)
  ELSE create_ex_shrunk([f |-> fit.f, ret |-> fit.ret, scales |-> <<>>, hang |-> FALSE],
                        env, dev, paint, fit.f.m_width)

\* create_ex.  env: the font of the rasterizer; dev: the device
\* [max_texture, fault, dangling_crash]; measure, paint: the rasterizer in
\* the measuring passes and in the drawing pass
create_ex(f, env, dev, measure, paint) ==
  IF f.m_texture_handle.state = "released" /\ dev.dangling_crash
    THEN create_ex_result(f, FALSE, "crash", 0, <<>>)
  ELSE create_ex_fitted(
         fit_atlas([f EXCEPT !.m_texture_handle =
                               IF @.state = NULL THEN @ ELSE texture_release(@),
                             !.m_width = 128, !.m_height = 128],
                   env, measure),
         env, dev, measure, paint)

\* create
fontwrapper_create(f, family, height, env, dev, measure, paint) ==
  create_ex([f EXCEPT !.m_family = family, !.m_size = height,
                      !.m_scale = ScaleOne, !.m_spacing = 0],
            env, dev, measure, paint)

\* reset: [f, ret, fault, fitted, scales]
fontwrapper_reset(f, pre_reset, env, dev) ==
  IF ~pre_reset THEN create_ex(f, env, dev, "none", "none")
  ELSE IF f.m_texture_handle.state = NULL
    THEN create_ex_result(f, TRUE, "none", 0, <<>>)
  ELSE IF f.m_texture_handle.state = "released" /\ dev.dangling_crash
    THEN create_ex_result(f, FALSE, "crash", 0, <<>>)
  ELSE create_ex_result([f EXCEPT !.m_texture_handle = texture_release(@)], TRUE, "none",
                        0, <<>>)

\* coords
fontwrapper_coords(f, glyph) ==
  IF glyph \in DOMAIN f.m_coords THEN f.m_coords[glyph] ELSE null_uv

\* erase
fontwrapper_erase(f, dev) ==
  IF f.m_texture_handle.state = "released" /\ dev.dangling_crash
    THEN [f |-> f, fault |-> "crash"]
    ELSE [f |-> [f EXCEPT !.m_texture_handle =
                            IF @.state = NULL THEN @ ELSE texture_release(@),
                          !.m_coords = [ch \in {} |-> null_uv],
                          !.m_size = 0, !.m_spacing = 0,
                          !.m_scale = ScaleOne, !.m_family = ""],
          fault |-> "none"]

\* m_coords[c] of text_extent: the map after the access
coords_access(m, c) == IF c \in DOMAIN m THEN m ELSE MapPut(m, c, null_uv)

\* ( uv[hi] - uv[lo] ) * dim
uv_span(uv, lo, hi, dim) == FracToPixel(uv[hi], dim) - FracToPixel(uv[lo], dim)

RECURSIVE text_extent_row_lowers(_, _, _, _, _, _, _)
\* the loop of text_extent, if a line break reset the width returned too
text_extent_row_lowers(f, text, k, row_width, row_height, width, height) ==
  IF k > Len(text) THEN [f |-> f, width |-> width, height |-> height]
  ELSE
    LET c == text[k]
        row0 == IF c = 10 THEN 0 ELSE row_width
        height1 == IF c = 10 THEN height + row_height ELSE height
        m == coords_access(f.m_coords, c)
        row1 == row0 + uv_span(m[c], 1, 3, f.m_width) - 2 * f.m_spacing
    IN  IF c < 32
          THEN text_extent_row_lowers(f, text, k + 1, row0, row_height,
                                      IF c = 10 THEN 0 ELSE width, height1)
          ELSE text_extent_row_lowers([f EXCEPT !.m_coords = m], text, k + 1, row1,
                                      row_height, IF row1 > width THEN row1 ELSE width,
                                      height1)

RECURSIVE text_extent_row(_, _, _, _, _, _, _)
\* the loop of text_extent from character k on
text_extent_row(f, text, k, row_width, row_height, width, height) ==
  IF k > Len(text) THEN [f |-> f, width |-> width, height |-> height]
  ELSE
    LET c == text[k]
        row0 == IF c = 10 THEN 0 ELSE row_width
        height1 == IF c = 10 THEN height + row_height ELSE height
        m == coords_access(f.m_coords, c)
        row1 == row0 + uv_span(m[c], 1, 3, f.m_width) - 2 * f.m_spacing
    IN  IF c < 32
          THEN text_extent_row(f, text, k + 1, row0, row_height, width, height1)
          ELSE text_extent_row([f EXCEPT !.m_coords = m], text, k + 1, row1, row_height,
                               IF row1 > width THEN row1 ELSE width, height1)

\* text_extent: [f, width, height], in pixels
text_extent(f, text) ==
  LET m == coords_access(f.m_coords, 32)
      row_height == uv_span(m[32], 2, 4, f.m_height)
  IN  text_extent_row([f EXCEPT !.m_coords = m], text, 1, 0, row_height, 0, row_height)

RECURSIVE push_text_pen(_, _, _, _, _)
\* the pen of push_text from character k on.  Lengths along x are counted
\* in 1 / m_scale of a pixel, which is what w = ... / font.scale() makes
\* exact: x is the pen, rows the pen at the end of every line so far.
push_text_pen(f, text, k, x, rows) ==
  IF k > Len(text) THEN Append(rows, x)
  ELSE
    LET c == text[k]
        uv == fontwrapper_coords(f, c)
        w == uv_span(uv, 1, 3, f.m_width) * ScaleOne
    IN  IF c = 10 THEN push_text_pen(f, text, k + 1, 0, Append(rows, x))
        ELSE IF c < 32 THEN push_text_pen(f, text, k + 1, x, rows)
        ELSE push_text_pen(f, text, k + 1, x + w - 2 * f.m_spacing * f.m_scale, rows)

\* the layout push_text makes of a text, relative to the start of the pen:
\* [rows |-> the pen at the end of each line, in 1 / m_scale of a pixel,
\*  line_height |-> the advance of '\n', in pixels]
push_text_layout(f, text) ==
  [ rows |-> push_text_pen(f, text, 1, 0, <<>>),
    line_height |-> uv_span(fontwrapper_coords(f, 65), 2, 4, f.m_height) ]

(***************************************************************************)
(* c_fontwrapper: the operations.  font_env is the font GDI selects for    *)
(* m_family and the MaxTextureWidth of the device; font_created is the     *)
(* object as the last create left it.                                      *)
(***************************************************************************)
GlyphRanges == << [wcLow |-> 32, cGlyphs |-> 2], [wcLow |-> 65, cGlyphs |-> 8],
                  [wcLow |-> 120, cGlyphs |-> 2] >>

\* the font GDI selects for an empty family name
DefaultFont ==
  [ family |-> "", ranges |-> GlyphRanges, scalable |-> TRUE, height |-> 16,
    heights |-> {16}, wide |-> {65, 66}, long |-> {}, unmeasurable |-> {} ]

Fonts ==
  { [ family |-> "Arial", ranges |-> GlyphRanges, scalable |-> TRUE, height |-> 16,
      heights |-> {16}, wide |-> {65, 66}, long |-> {}, unmeasurable |-> {} ],
    [ family |-> "Terminal", ranges |-> GlyphRanges, scalable |-> FALSE, height |-> 32,
      heights |-> {32}, wide |-> {}, long |-> {}, unmeasurable |-> {} ],
    [ family |-> "Fixedsys", ranges |-> GlyphRanges, scalable |-> FALSE, height |-> 8,
      heights |-> {8, 32}, wide |-> {}, long |-> {}, unmeasurable |-> {66} ],
    [ family |-> "Segoe UI Symbol", ranges |-> GlyphRanges, scalable |-> TRUE,
      height |-> 16, heights |-> {16}, wide |-> {65}, long |-> {70},
      unmeasurable |-> {} ] }

Ceilings == {130, 4096}

Sizes == {12, 24}

\* the texts measured: "AB", "AB\n\tx" (a second line that is narrower and
\* has a control character), and a space followed by a code point outside
\* the ranges
FontTexts == { <<65, 66>>, <<65, 66, 10, 9, 120>>, <<32, 200>> }

\* the code points the fonts and the texts are made of
FontGlyphs == {9, 10, 32, 33, 120, 121, 200} \cup (65 .. 72)

\* the failures of one create: none, one call, or a rasterizer that fails
\* the same way in every pass
FaultCases ==
  { c \in [measure : RasterFaults \ {"draw"}, paint : RasterFaults,
           device : FontDeviceFaults] :
      \/ Cardinality({k \in {"measure", "paint", "device"} : c[k] # "none"}) <= 1
      \/ c.measure = c.paint /\ c.device = "none" }

NoFaults == [measure |-> "none", paint |-> "none", device |-> "none"]

Device(max_texture, failing, dangling_crash) ==
  [max_texture |-> max_texture, fault |-> failing, dangling_crash |-> dangling_crash]

\* what a Release() through a dangling pointer can do
DanglingOutcomes(f) ==
  IF f.m_texture_handle.state = "released" THEN BOOLEAN ELSE {FALSE}

FontCall(op, ret, faults, fitted, scales, text, width, height, layout) ==
  [op |-> op, prev |-> font_call.op, ret |-> ret, faults |-> faults, fitted |-> fitted,
   scales |-> scales, text |-> text, width |-> width, height |-> height,
   layout |-> layout, uv |-> null_uv]

NoLayout == [rows |-> <<>>, line_height |-> 0]

FontCreate ==
  /\ fault = "none"
  /\ font_calls < MaxFontOps
  /\ font_created.n < MaxCreates
  /\ font_calls' = font_calls + 1
  /\ \E fnt \in Fonts, max \in Ceilings, height \in Sizes, c \in FaultCases,
        crash \in DanglingOutcomes(font) :
       \E r \in {fontwrapper_create(font, fnt.family, height, fnt,
                                   Device(max, c.device, crash), c.measure, c.paint)} :
           /\ font' = r.f
           /\ fault' = r.fault
           /\ font_env' = [font |-> fnt, max_texture |-> max]
           /\ font_created' = [n |-> font_created.n + 1, f |-> r.f, faults |-> c,
                               live |-> r.ret /\ r.fault = "none"]
           /\ font_call' = FontCall("create", r.ret, c, r.fitted, r.scales, <<>>, 0, 0,
                                    NoLayout)
  /\ UNCHANGED <<atlas_vars, queue_vars, dbq_vars>>

FontReset ==
  /\ fault = "none"
  /\ font_calls < MaxFontOps
  /\ font_calls' = font_calls + 1
  /\ \E pre_reset \in BOOLEAN, crash \in DanglingOutcomes(font) :
       \E r \in {fontwrapper_reset(font, pre_reset, font_env.font,
                                  Device(font_env.max_texture, "none", crash))} :
           /\ font' = r.f
           /\ fault' = r.fault
           /\ font_call' = FontCall(IF pre_reset THEN "reset_pre" ELSE "reset_post",
                                    r.ret, NoFaults, r.fitted, r.scales, <<>>, 0, 0,
                                    NoLayout)
  /\ UNCHANGED <<font_env, font_created, atlas_vars, queue_vars, dbq_vars>>

FontErase ==
  /\ fault = "none"
  /\ font_calls < MaxFontOps
  /\ font_calls' = font_calls + 1
  /\ \E crash \in DanglingOutcomes(font) :
       LET r == fontwrapper_erase(font, Device(font_env.max_texture, "none", crash))
       IN  /\ font' = r.f
           /\ fault' = r.fault
  /\ font_env' = [font_env EXCEPT !.font = DefaultFont]
  /\ font_created' = [font_created EXCEPT !.live = FALSE]
  /\ font_call' = FontCall("erase", TRUE, NoFaults, 0, <<>>, <<>>, 0, 0, NoLayout)
  /\ UNCHANGED <<atlas_vars, queue_vars, dbq_vars>>

FontTextExtent ==
  /\ fault = "none"
  /\ font_calls < MaxFontOps
  /\ font_calls' = font_calls + 1
  /\ \E text \in FontTexts :
       \E r \in {text_extent(font, text)} :
           /\ font' = r.f
           /\ font_call' = FontCall("text_extent", TRUE, NoFaults, 0, <<>>, text,
                                    r.width, r.height, push_text_layout(font, text))
  /\ UNCHANGED <<font_env, font_created, fault, atlas_vars, queue_vars, dbq_vars>>

\* the code points coords is asked for: a space, a wide glyph, the glyph
\* Fixedsys cannot measure, and one outside the ranges
CoordsGlyphs == {32, 65, 66, 200}

\* coords, a const member; the code point asked for is kept as the text
FontCoords ==
  /\ fault = "none"
  /\ font_calls < MaxFontOps
  /\ font_calls' = font_calls + 1
  /\ \E glyph \in CoordsGlyphs :
       font_call' = [FontCall("coords", TRUE, NoFaults, 0, <<>>, <<glyph>>, 0, 0, NoLayout)
                       EXCEPT !.uv = fontwrapper_coords(font, glyph)]
  /\ UNCHANGED <<font, font_env, font_created, fault, atlas_vars, queue_vars, dbq_vars>>

FontInit ==
  /\ font = FontConstructed
  /\ font_env = [font |-> DefaultFont, max_texture |-> 4096]
  /\ font_created = [n |-> 0, f |-> FontConstructed, faults |-> NoFaults,
                     live |-> FALSE]
  /\ font_calls = 0
  /\ font_call = [op |-> "none", prev |-> "none", ret |-> TRUE, faults |-> NoFaults,
                  fitted |-> 0, scales |-> <<>>, text |-> <<>>, width |-> 0,
                  height |-> 0, layout |-> NoLayout, uv |-> null_uv]

(***************************************************************************)
(* c_doublebuffer_queue                                                    *)
(***************************************************************************)
Slots == {"front", "back"}

\* the state the constructor leaves: m_swap_drawlists has no initializer,
\* so it holds either value
DoubleBufferConstructed(swap_drawlists) ==
  [ m_front_queue    |-> QueueConstructed,
    m_back_queue     |-> QueueConstructed,
    m_swap_drawlists |-> swap_drawlists ]

\* the c_renderqueue of a slot
slot_queue(d, slot) == IF slot = "front" THEN d.m_front_queue ELSE d.m_back_queue

slot_store(d, slot, q) ==
  IF slot = "front" THEN [d EXCEPT !.m_front_queue = q]
                    ELSE [d EXCEPT !.m_back_queue = q]

\* create: the front queue, then the back queue unless the front failed
doublebuffer_create(d, max_verts, max_indices, dev_front, dev_back) ==
  LET f == renderqueue_create(d.m_front_queue, max_verts, max_indices, dev_front)
      b == renderqueue_create(d.m_back_queue, max_verts, max_indices, dev_back)
  IN  IF ~f.ret
        THEN [d |-> [d EXCEPT !.m_front_queue = f.q], ret |-> FALSE]
        ELSE [d |-> [d EXCEPT !.m_front_queue = f.q, !.m_back_queue = b.q],
              ret |-> b.ret]

\* swap that also empties the slot handed to the writer
doublebuffer_swap_clearing(d) ==
  LET e == [d EXCEPT !.m_swap_drawlists = ~@]
      slot == IF ~e.m_swap_drawlists THEN "front" ELSE "back"
  IN  slot_store(e, slot, renderqueue_clear(slot_queue(e, slot)))

\* swap
doublebuffer_swap(d) == [d EXCEPT !.m_swap_drawlists = ~@]

\* queue() that returns the front queue whatever the toggle is
doublebuffer_queue_front(d) == "front"

\* queue(): the slot of the queue returned
doublebuffer_queue(d) == IF ~d.m_swap_drawlists THEN "front" ELSE "back"

\* flush() that selects its slot as queue() does
doublebuffer_flush_slot_as_queue(d) == IF ~d.m_swap_drawlists THEN "front" ELSE "back"

\* flush() that flushes the front queue whatever the toggle is
doublebuffer_flush_slot_front(d) == "front"

\* flush(): the slot of the queue flushed
doublebuffer_flush_slot(d) == IF d.m_swap_drawlists THEN "front" ELSE "back"

\* queue() that holds the caller back while flush() works on the slot
queue_blocks_during_flush(d, f) ==
  f.pc = "flushing" /\ f.slot = doublebuffer_queue(d)

\* queue() returns at once: nothing in it waits for a running flush()
queue_blocks(d, f) == FALSE

(***************************************************************************)
(* The writer thread and the flusher thread                                *)
(***************************************************************************)
\* the text the writer draws
WriterText == <<[cls |-> "glyph", n |-> 2], [cls |-> "space", n |-> 1]>>

WriterPushes == {"line", "text"}

\* one call of the writer on the queue queue() gave it: [q, fault]
writer_call(q, op) ==
  IF op = "clear" THEN [q |-> renderqueue_clear(q), fault |-> "none"]
  ELSE IF op = "line" THEN push_line(q)
  ELSE push_text(q, "texA", WriterText)

\* commands and sizes of a queue
Contents(q) ==
  [ m_drawcalls |-> q.m_drawcalls,
    vtx_size    |-> q.m_vtxs.m_size,
    idx_size    |-> q.m_idxs.m_size ]

WriterIdle(op) == [pc |-> "idle", slot |-> "front", op |-> op, raced |-> FALSE]

FlusherIdle(slot, ops, expect) ==
  [ pc |-> "idle", slot |-> slot, idx |-> 0, cursors |-> flush_start,
    ops |-> ops, expect |-> expect, raced |-> FALSE ]

\* a data race has two outcomes: the threads go on with what they find, or
\* the process stops
RaceOutcomes(raced) == IF raced THEN {"continue", "crash"} ELSE {"continue"}

\* the usage contract: the writer does not start on a slot while a flush()
\* that selected it is running
UsageContract ==
  ~(flusher.pc = "flushing" /\ flusher.slot = doublebuffer_queue(dbq))

DoubleBufferCreate ==
  /\ fault = "none"
  /\ writer = WriterIdle("none") /\ flusher.pc = "idle" /\ dbq_writes = 0 /\ dbq_swaps = 0
  /\ slot_queue(dbq, "back").m_vertex_buffer.state = NULL
  /\ \E caps \in CreateCaps, dev_front \in CreateOutcomes :
       \E dev_back \in CreateOutcomes :
         dbq' = doublebuffer_create(dbq, u32(caps[1]), u32(caps[2]), dev_front, dev_back).d
  /\ UNCHANGED <<writer, flusher, dbq_handoff, dbq_writes, dbq_swaps, fault,
                 atlas_vars, queue_vars, font_vars>>

\* the writer calls queue() and enters op on the queue returned
WriterEnters(op) ==
  /\ fault = "none"
  /\ writer.pc = "idle"
  /\ ~queue_blocks(dbq, flusher)
  /\ LET slot == doublebuffer_queue(dbq)
         race == flusher.pc = "flushing" /\ flusher.slot = slot
     IN  /\ writer' = [pc |-> "writing", slot |-> slot, op |-> op, raced |-> race]
         /\ flusher' = [flusher EXCEPT !.raced = @ \/ race]
  /\ UNCHANGED <<dbq, dbq_handoff, dbq_swaps, fault, atlas_vars, queue_vars, font_vars>>

WriterClear ==
  /\ WriterEnters("clear")
  /\ UNCHANGED dbq_writes

WriterPush ==
  /\ dbq_writes < MaxWrites
  /\ \E op \in WriterPushes : WriterEnters(op)
  /\ dbq_writes' = dbq_writes + 1

ContractClear == UsageContract /\ WriterClear

ContractPush == UsageContract /\ WriterPush

\* the call the writer entered returns
WriterReturns ==
  /\ fault = "none"
  /\ writer.pc = "writing"
  /\ \E outcome \in RaceOutcomes(writer.raced) :
       LET r == writer_call(slot_queue(dbq, writer.slot), writer.op)
       IN  /\ dbq' = slot_store(dbq, writer.slot, r.q)
           /\ fault' = IF outcome = "crash" THEN "crash" ELSE r.fault
  /\ writer' = [writer EXCEPT !.pc = "idle", !.raced = FALSE]
  /\ UNCHANGED <<flusher, dbq_handoff, dbq_writes, dbq_swaps, atlas_vars, queue_vars, font_vars>>

WriterSwap ==
  /\ fault = "none"
  /\ writer.pc = "idle"
  /\ dbq_swaps < MaxSwaps
  /\ dbq' = doublebuffer_swap(dbq)
  /\ dbq_handoff' = [dbq_handoff EXCEPT ![doublebuffer_queue(dbq)] =
                       Contents(slot_queue(dbq, doublebuffer_queue(dbq)))]
  /\ dbq_swaps' = dbq_swaps + 1
  /\ writer' = WriterIdle("swap")
  /\ UNCHANGED <<flusher, dbq_writes, fault, atlas_vars, queue_vars, font_vars>>

\* flush() selects its slot, returns if the slot has no commands, and
\* otherwise uploads the geometry if it has to
FlushEnters ==
  /\ fault = "none"
  /\ flusher.pc = "idle"
  /\ LET slot == doublebuffer_flush_slot(dbq)
         q == slot_queue(dbq, slot)
         race == writer.pc = "writing" /\ writer.slot = slot
     IN  IF q.m_drawcalls = <<>>
           THEN /\ flusher' = FlusherIdle(slot, <<>>, dbq_handoff[slot].m_drawcalls)
                /\ UNCHANGED <<dbq, writer, fault>>
           ELSE \E dev \in DeviceOutcomesFor(q) :
                  LET u == IF q.m_update THEN renderqueue_update(q, dev)
                                         ELSE [q |-> q, fault |-> "none"]
                  IN  /\ dbq' = slot_store(dbq, slot, u.q)
                      /\ fault' = IF /\ u.fault = "none"
                                      /\ dev.dangling_crash
                                      /\ "released" \in {u.q.m_vertex_buffer.state,
                                                          u.q.m_index_buffer.state}
                                     THEN "crash" ELSE u.fault
                      /\ flusher' = [ pc |-> "flushing", slot |-> slot, idx |-> 1,
                                      cursors |-> flush_start, ops |-> <<>>,
                                      expect |-> dbq_handoff[slot].m_drawcalls,
                                      raced |-> race ]
                      /\ writer' = [writer EXCEPT !.raced = @ \/ race]
  /\ UNCHANGED <<dbq_handoff, dbq_writes, dbq_swaps, atlas_vars, queue_vars, font_vars>>

\* one turn of the loop over the commands; flush() returns after the last
FlushDraws ==
  /\ fault = "none"
  /\ flusher.pc = "flushing"
  /\ \E outcome \in RaceOutcomes(flusher.raced) :
       LET drawcalls == slot_queue(dbq, flusher.slot).m_drawcalls
           k == flusher.idx
       IN  IF outcome = "crash"
             THEN /\ fault' = "crash"
                  /\ UNCHANGED flusher
           ELSE IF k > Len(drawcalls)
             THEN /\ flusher' = FlusherIdle(flusher.slot, flusher.ops, flusher.expect)
                  /\ UNCHANGED fault
           ELSE /\ flusher' =
                     [flusher EXCEPT
                        !.pc = IF k >= Len(drawcalls) THEN "idle" ELSE "flushing",
                        !.idx = IF k >= Len(drawcalls) THEN 0 ELSE k + 1,
                        !.cursors = IF k >= Len(drawcalls) THEN flush_start
                                    ELSE flush_advance(drawcalls[k], @),
                        !.ops = Append(@, flush_command(drawcalls[k], flusher.cursors.vertex_idx,
                                                        flusher.cursors.index_idx)),
                        !.raced = IF k >= Len(drawcalls) THEN FALSE ELSE @]
                /\ UNCHANGED fault
  /\ UNCHANGED <<dbq, writer, dbq_handoff, dbq_writes, dbq_swaps, atlas_vars, queue_vars, font_vars>>

DoubleBufferInit ==
  /\ \E swap_drawlists \in BOOLEAN : dbq = DoubleBufferConstructed(swap_drawlists)
  /\ writer = WriterIdle("none")
  /\ flusher = FlusherIdle("front", <<>>, <<>>)
  /\ dbq_handoff = [slot \in Slots |-> Contents(QueueConstructed)]
  /\ dbq_writes = 0
  /\ dbq_swaps = 0

(***************************************************************************)
(* Specifications                                                          *)
(***************************************************************************)
Init ==
  /\ AtlasInit
  /\ QueueInit
  /\ DoubleBufferInit
  /\ FontInit
  /\ fault = "none"

\* c_texatlas, c_renderqueue and c_fontwrapper never read m_swap_drawlists
\* of the double-buffered queue, which construction leaves undetermined:
\* their specifications start with the flag clear
InitNoSwap == Init /\ ~dbq.m_swap_drawlists

NextAtlas ==
  \/ AtlasCreate
  \/ AtlasAppend

SpecAtlas == InitNoSwap /\ [][NextAtlas]_vars

NextQueue ==
  \/ QueueCreate
  \/ QueuePushRectangle
  \/ QueuePushTriangle
  \/ QueuePushLine
  \/ QueuePushText
  \/ QueuePushScissor
  \/ QueueClear
  \/ QueueFlush
  \/ QueueReset

SpecQueue == InitNoSwap /\ [][NextQueue]_vars

\* writer and flusher with nothing that throttles them
NextDoubleBuffer ==
  \/ DoubleBufferCreate
  \/ WriterClear
  \/ WriterPush
  \/ WriterReturns
  \/ WriterSwap
  \/ FlushEnters
  \/ FlushDraws

SpecDoubleBuffer == Init /\ [][NextDoubleBuffer]_vars

\* a writer that only pushes and swaps
NextPushSwap ==
  \/ DoubleBufferCreate
  \/ WriterPush
  \/ WriterReturns
  \/ WriterSwap
  \/ FlushEnters
  \/ FlushDraws

SpecPushSwap == Init /\ [][NextPushSwap]_vars

\* a writer that keeps the usage contract
NextContract ==
  \/ DoubleBufferCreate
  \/ ContractClear
  \/ ContractPush
  \/ WriterReturns
  \/ WriterSwap
  \/ FlushEnters
  \/ FlushDraws

NextFont ==
  \/ FontCreate
  \/ FontReset
  \/ FontErase
  \/ FontTextExtent

SpecFont == InitNoSwap /\ [][NextFont]_vars

SpecContract == Init /\ [][NextContract]_vars

\* coords on either class; the two objects share nothing, so a behaviour
\* uses one of them
NextCoords ==
  \/ font_calls = 0 /\ AtlasCreate
  \/ font_calls = 0 /\ AtlasAppendWhole
  \/ font_calls = 0 /\ AtlasCoords
  \/ atlas_call.op = "none" /\ FontCreate
  \/ atlas_call.op = "none" /\ FontTextExtent
  \/ atlas_call.op = "none" /\ FontErase
  \/ atlas_call.op = "none" /\ FontCoords

SpecCoords == InitNoSwap /\ [][NextCoords]_vars

\* an atlas that is filled and taken through device resets, up to one
\* rectangle packed after the last reset
NextAtlasReset ==
  \/ AtlasCreate
  \/ Len(atlas_packed) <= MaxPackedAtReset /\ AtlasAppendWhole
  \/ AtlasResetPre
  \/ AtlasResetPost

SpecAtlasReset == InitNoSwap /\ [][NextAtlasReset]_vars

(***************************************************************************)
(* Properties of c_texatlas                                                *)
(***************************************************************************)
UVInUnit(uv) ==
  \A i \in 1 .. 4 : FracLe(FracZero, uv[i]) /\ FracLe(uv[i], FracOne)

\* the pixel region [x0, x1) x [y0, y1) of a rectangle of the atlas
PixelRegion(uv) ==
  [ x0 |-> FracToPixel(uv[1], atlas.m_dimensions.x),
    y0 |-> FracToPixel(uv[2], atlas.m_dimensions.y),
    x1 |-> FracToPixel(uv[3], atlas.m_dimensions.x),
    y1 |-> FracToPixel(uv[4], atlas.m_dimensions.y) ]

Overlap(r, s) ==
  /\ r.x0 < s.x1 /\ s.x0 < r.x1
  /\ r.y0 < s.y1 /\ s.y0 < r.y1

\* C1: every rectangle recorded by a successful append lies within
\* [0,1]x[0,1] and its pixel region overlaps that of no other successfully
\* packed rectangle.
C1_PackedWithinUnitAndDisjoint ==
  \A i \in 1 .. Len(atlas_packed) :
    /\ UVInUnit(atlas_packed[i].uv)
    /\ \A j \in 1 .. Len(atlas_packed) :
         i # j => ~Overlap(PixelRegion(atlas_packed[i].uv), PixelRegion(atlas_packed[j].uv))

\* C2: an append whose rectangle is higher than the vertical space left
\* after the row wrap returns failure, stores into no texel, and leaves
\* every stored UVRect (that of its own key included) as it was.
C2_ExhaustedAppendFailsClean ==
  [][ (atlas_call'.op = "append" /\ atlas_call'.exhausted)
        => /\ atlas_call'.ret = FALSE
           /\ atlas_call'.written = {}
           /\ atlas'.m_coords = atlas.m_coords ]_vars

C2_Witness ==
  /\ atlas_call.op = "append"
  /\ atlas_call.exhausted
  /\ atlas_call.exit = "exhausted"
  /\ DOMAIN atlas.m_coords # {}

\* C16: an append whose data is shorter than dimensions.x * dimensions.y *
\* 4 bytes is refused before any texel is stored: it returns failure, has
\* stored into no texel, and records no UVRect.
C16_ShortDataFailsClean ==
  [][ (atlas_call'.op = "append" /\ atlas_call'.short)
        => /\ atlas_call'.ret = FALSE
           /\ atlas_call'.written = {}
           /\ atlas'.m_coords = atlas.m_coords ]_vars

\* the texels of a rectangle of the atlas
Texels(uv) ==
  (PixelRegion(uv).x0 .. PixelRegion(uv).x1 - 1) \X (PixelRegion(uv).y0 .. PixelRegion(uv).y1 - 1)

\* C26: an append that fails leaves the mapping as it was; one that
\* succeeds leaves every other key's UVRect as it was and maps its own key,
\* stored before or not, to the region it has just written.
C26_AppendChangesOnlyItsKey ==
  [][ atlas_call'.op = "append"
        => IF ~atlas_call'.ret
             THEN atlas'.m_coords = atlas.m_coords
             ELSE /\ DOMAIN atlas'.m_coords = DOMAIN atlas.m_coords \cup {atlas_call'.uuid}
                  /\ \A k \in DOMAIN atlas.m_coords \ {atlas_call'.uuid} :
                       atlas'.m_coords[k] = atlas.m_coords[k]
                  /\ Texels(atlas'.m_coords[atlas_call'.uuid]) = atlas_call'.written
                  /\ atlas_call'.written # {} ]_vars

\* a key appended again while another key is stored: its UVRect is the new
\* region, the other key's UVRect is the one it was given
C26_Witness ==
  /\ atlas_call.op = "append"
  /\ atlas_call.ret
  /\ Len(atlas_packed) = 3
  /\ atlas_packed[1].uuid = atlas_call.uuid
  /\ atlas_packed[2].uuid # atlas_call.uuid
  /\ atlas_packed[3].uuid = atlas_call.uuid
  /\ atlas.m_coords[atlas_call.uuid] = atlas_packed[3].uv
  /\ atlas.m_coords[atlas_call.uuid] # atlas_packed[1].uv
  /\ atlas.m_coords[atlas_packed[2].uuid] = atlas_packed[2].uv

\* the UVRect the last successful append of the key packed, the all-zero
\* UVRect if there was none
LastPacked(packed, uuid) ==
  LET at == {i \in 1 .. Len(packed) : packed[i].uuid = uuid}
  IN  IF at = {} THEN null_uv
      ELSE packed[CHOOSE i \in at : \A j \in at : j <= i].uv

\* the code points of the coverage ranges
InRanges(ranges) ==
  UNION { ranges[r].wcLow .. ranges[r].wcLow + ranges[r].cGlyphs - 1 : r \in DOMAIN ranges }

\* C22: coords() of c_texatlas and of c_fontwrapper returns, stops nothing
\* and leaves the object as it is; for a key no append stored it gives the
\* all-zero UVRect and for a stored key the UVRect of the last append that
\* stored it; for a code point the mapping has it gives the mapped UVRect
\* and for any other one, and for one outside the font's ranges, the
\* all-zero UVRect.
C22_CoordsTotalAndPure ==
  [][ /\ (atlas_call'.op = "coords" /\ font_calls' = 0)
           => /\ atlas' = atlas
              /\ fault' = "none"
              /\ atlas_call'.uv = LastPacked(atlas_packed, atlas_call'.uuid)
      /\ (font_call'.op = "coords" /\ font_calls' = font_calls + 1)
           => LET glyph == font_call'.text[1] IN
              /\ font' = font
              /\ fault' = "none"
              /\ font_call'.uv = IF glyph \in DOMAIN font.m_coords
                                   THEN font.m_coords[glyph] ELSE null_uv
              /\ glyph \notin InRanges(font_env.font.ranges)
                   => font_call'.uv = null_uv ]_vars

\* coords of a key that was appended twice: the UVRect of the second append
C22_Witness ==
  /\ atlas_call.op = "coords"
  /\ atlas_call.uv # null_uv
  /\ Len(atlas_packed) = 2
  /\ atlas_packed[1].uuid = atlas_call.uuid
  /\ atlas_packed[2].uuid = atlas_call.uuid
  /\ atlas_packed[1].uv # atlas_packed[2].uv
  /\ atlas_call.uv = atlas_packed[2].uv

\* C30: an append that fails leaves the cursor and the height of the
\* current row as they were.
C30_FailedAppendKeepsPacker ==
  [][ (atlas_call'.op = "append" /\ ~atlas_call'.ret /\ fault' = "none")
        => /\ atlas'.m_cursor = atlas.m_cursor
           /\ atlas'.m_max_height = atlas.m_max_height ]_vars

\* C35: the region a successful append hands out after a device reset
\* (reset(true), reset(false)) overlaps the region of no other key that
\* coords() still returns.
C35_NoOverlapAfterReset ==
  [][ (/\ atlas_call.op = "reset_post"
       /\ atlas_call.ret
       /\ atlas_call'.op = "append"
       /\ atlas_call'.ret)
        => \A k \in DOMAIN atlas'.m_coords \ {atlas_call'.uuid} :
             ~Overlap(PixelRegion(texatlas_coords(atlas', atlas_call'.uuid)),
                      PixelRegion(texatlas_coords(atlas', k))) ]_vars

(***************************************************************************)
(* Properties of c_renderqueue                                             *)
(***************************************************************************)
TriBatch(texture, vertices, indices, primitives) ==
  [ m_kind           |-> "CALL_TRI",
    m_texture_handle |-> texture,
    m_primitives     |-> u32(primitives),
    m_vertices       |-> u32(vertices),
    m_indices        |-> u32(indices) ]

Rectangle(texture) == [op |-> "rectangle", texture |-> texture, text |-> <<>>]

Scissor == [op |-> "scissor", texture |-> NULL, text |-> <<>>]

\* C3: two consecutive filled rectangles with the same non-null texture
\* make one TriBatch command of 8 vertices, 12 indices and 4 primitives;
\* with a push_scissor between them the list is TriBatch (4/6/2), the
\* scissor command, TriBatch (4/6/2).
C3_TwoRectanglesOneBatch ==
  \A t \in Textures \ {NULL} :
    /\ (fault = "none" /\ queue_hist = <<Rectangle(t), Rectangle(t)>>)
         => queue.m_drawcalls = <<TriBatch(t, 8, 12, 4)>>
    /\ (fault = "none" /\ queue_hist = <<Rectangle(t), Scissor, Rectangle(t)>>)
         => /\ Len(queue.m_drawcalls) = 3
            /\ queue.m_drawcalls[1] = TriBatch(t, 4, 6, 2)
            /\ queue.m_drawcalls[2].m_kind = "CALL_SCISSOR"
            /\ queue.m_drawcalls[3] = TriBatch(t, 4, 6, 2)

C3_Witness ==
  /\ queue_hist = <<Rectangle("texA"), Rectangle("texA")>>
  /\ Len(queue.m_drawcalls) = 1
  /\ queue.m_drawcalls[1].m_vertices = u32(8)

\* a submission that stores geometry
HasGeometry(h) ==
  \/ h.op \in {"rectangle", "triangle", "line"}
  \/ h.op = "text" /\ text_count(h.text, {"glyph"}) > 0

\* a step keeps the commands in place: the list is emptied, or extended at
\* its end, or only its last command changes and stays a TriBatch of the
\* same texture
KeepsCommandOrder(old, new) ==
  \/ new = <<>>
  \/ /\ Len(new) = Len(old) + 1
     /\ \A k \in 1 .. Len(old) : new[k] = old[k]
  \/ /\ Len(new) = Len(old)
     /\ \A k \in 1 .. Len(old) - 1 : new[k] = old[k]
     /\ old # <<>> =>
          \/ new[Len(old)] = old[Len(old)]
          \/ /\ old[Len(old)].m_kind = "CALL_TRI"
             /\ new[Len(old)].m_kind = "CALL_TRI"
             /\ new[Len(old)].m_texture_handle = old[Len(old)].m_texture_handle

\* the k-th device operation is the one of the k-th command
IssuedInOrder(ops, drawcalls) ==
  /\ Len(ops) = Len(drawcalls)
  /\ \A k \in 1 .. Len(ops) :
       IF drawcalls[k].m_kind = "CALL_TRI"
         THEN /\ ops[k].op = "DrawIndexedPrimitive"
              /\ ops[k].texture = drawcalls[k].m_texture_handle
              /\ ops[k].num_vertices = drawcalls[k].m_vertices
              /\ ops[k].primitives = drawcalls[k].m_primitives
         ELSE ops[k].op = "SetScissorRect"

\* C4: commands are never reordered: every step keeps the commands in
\* place and merges into the last command only, flush() issues one device
\* operation per command in the order of the list, and geometry submitted
\* with textures A, B, A makes three TriBatch commands.
C4_CommandsKeepSubmissionOrder ==
  /\ [][KeepsCommandOrder(queue.m_drawcalls, queue'.m_drawcalls)]_vars
  /\ []( (queue_call.op = "flush" /\ fault = "none")
           => IssuedInOrder(queue_call.ops, queue.m_drawcalls) )
  /\ []( ( /\ fault = "none"
           /\ Len(queue_hist) = 3
           /\ \A k \in 1 .. 3 : HasGeometry(queue_hist[k])
           /\ queue_hist[1].texture = queue_hist[3].texture
           /\ queue_hist[1].texture # queue_hist[2].texture )
           => /\ Len(queue.m_drawcalls) = 3
              /\ \A k \in 1 .. 3 :
                   /\ queue.m_drawcalls[k].m_kind = "CALL_TRI"
                   /\ queue.m_drawcalls[k].m_texture_handle = queue_hist[k].texture )

C4_Witness ==
  /\ queue_call.op = "flush"
  /\ Len(queue_call.ops) = 3
  /\ queue_hist = <<Rectangle("texA"), Rectangle(NULL), Rectangle("texA")>>
  /\ \A k \in 1 .. 3 : queue_call.ops[k].op = "DrawIndexedPrimitive"

RECURSIVE IsDoubling(_, _, _)
\* to is from multiplied by a power of two, in at most n doublings
IsDoubling(from, to, n) ==
  \/ from = to
  \/ /\ n > 0
     /\ u32_lt(from, to)
     /\ u32_lt(from, u32_add(from, from))
     /\ IsDoubling(u32_add(from, from), to, n - 1)

\* the capacity of a created buffer only grows, by doublings
CapacityGrowsByDoubling(old, new) ==
  old.m_data.allocated => IsDoubling(old.m_capacity, new.m_capacity, 32)

\* C10: for both host buffers size <= capacity after any sequence of
\* create, push_*, clear and reset; a capacity never decreases and every
\* change of it multiplies it by a power of two.
C10_SizeWithinCapacity ==
  /\ []( fault = "none"
           => /\ u32_le(queue.m_vtxs.m_size, queue.m_vtxs.m_capacity)
              /\ u32_le(queue.m_idxs.m_size, queue.m_idxs.m_capacity) )
  /\ [][ /\ CapacityGrowsByDoubling(queue.m_vtxs, queue'.m_vtxs)
         /\ CapacityGrowsByDoubling(queue.m_idxs, queue'.m_idxs) ]_vars

\* the additions ensure_buffers_capacity is asked for
Additions == {0, 1, 4, 6}

\* size + to_add <= capacity, without wrap-around
Fits(b, to_add) ==
  /\ u32_le(b.m_size, u32_add(b.m_size, u32(to_add)))
  /\ u32_le(u32_add(b.m_size, u32(to_add)), b.m_capacity)

\* C11: ensure_buffers_capacity leaves a buffer that is already sufficient
\* as it is (capacity, storage, size, and its realloc flag), and a second
\* call with the same additions changes nothing.
C11_SufficientBufferUntouched ==
  fault = "none" =>
    \A v \in Additions, i \in Additions :
      LET e == ensure_buffers_capacity(queue, u32(v), u32(i)) IN
      /\ Fits(queue.m_vtxs, v)
           => /\ e.q.m_vtxs = queue.m_vtxs
              /\ e.q.m_realloc_vtx = queue.m_realloc_vtx
      /\ Fits(queue.m_idxs, i)
           => /\ e.q.m_idxs = queue.m_idxs
              /\ e.q.m_realloc_idx = queue.m_realloc_idx
      /\ e.fault = "none"
           => ensure_buffers_capacity(e.q, u32(v), u32(i)) = e

\* a queue whose vertex buffer is exactly filled by one more vertex, while
\* the index buffer has to grow for four more indices
C11_Witness ==
  /\ fault = "none"
  /\ queue.m_vtxs.m_size = u32(3) /\ queue.m_vtxs.m_capacity = u32(4)
  /\ ~queue.m_realloc_vtx
  /\ Fits(queue.m_vtxs, 1)
  /\ ~Fits(queue.m_idxs, 4)
  /\ ensure_buffers_capacity(queue, u32(1), u32(4)).q.m_idxs.m_capacity = u32(12)

\* a buffer that has grown has its size, and within its first size elements
\* the filled ones, as they were, in a storage that has that many elements
GrowthKeeps(old, new) ==
  new.m_capacity # old.m_capacity
    => /\ new.m_size = old.m_size
       /\ new.m_data.allocated
       /\ u32_le(old.m_size, new.m_data.len)
       /\ u32_min(new.m_data.filled, old.m_size) = u32_min(old.m_data.filled, old.m_size)

\* C28: when ensure_buffers_capacity grows a buffer, the size of the buffer
\* is unchanged and the first size elements of the new storage are the
\* first size elements of the old one, so the geometry stored so far is
\* still there.
C28_GrowthKeepsStoredElements ==
  fault = "none" =>
    \A v \in Additions, i \in Additions :
      LET e == ensure_buffers_capacity(queue, u32(v), u32(i)) IN
      e.fault = "none"
        => /\ GrowthKeeps(queue.m_vtxs, e.q.m_vtxs)
           /\ GrowthKeeps(queue.m_idxs, e.q.m_idxs)

\* a queue whose second rectangle made the vertex buffer grow from 4 to 8,
\* all 8 vertices in the storage, and which one more vertex makes grow to
\* 16 with the 8 in place
C28_Witness ==
  /\ fault = "none"
  /\ queue_call.op = "rectangle"
  /\ queue.m_vtxs.m_size = u32(8) /\ queue.m_vtxs.m_capacity = u32(8)
  /\ queue.m_vtxs.m_data = [make_unique(u32(8)) EXCEPT !.filled = u32(8)]
  /\ LET e == ensure_buffers_capacity(queue, u32(1), u32(0)) IN
       /\ e.q.m_vtxs.m_size = u32(8)
       /\ e.q.m_vtxs.m_data = [make_unique(u32(16)) EXCEPT !.filled = u32(8)]
       /\ e.q.m_realloc_vtx

\* vertices, indices and primitives of one submission
ShapeCounts(h) ==
  IF h.op = "triangle" THEN [v |-> u32(3), i |-> u32(3), p |-> u32(1)]
  ELSE IF h.op = "text"
    THEN [ v |-> u32_scale(u32(text_count(h.text, {"glyph"})), 4),
           i |-> u32_scale(u32(text_count(h.text, {"glyph"})), 6),
           p |-> u32_scale(u32(text_count(h.text, {"glyph"})), 2) ]
  ELSE [v |-> u32(4), i |-> u32(6), p |-> u32(2)]

RECURSIVE SumCounts(_, _, _)
\* the counts of submissions from .. to of the history, added up
SumCounts(hist, from, to) ==
  IF from > to THEN [v |-> u32_zero, i |-> u32_zero, p |-> u32_zero]
  ELSE LET rest == SumCounts(hist, from + 1, to)
           c == ShapeCounts(hist[from])
       IN  [v |-> u32_add(c.v, rest.v), i |-> u32_add(c.i, rest.i), p |-> u32_add(c.p, rest.p)]

RECURSIVE BatchesOf(_, _, _, _)
\* commands k.. are the submissions j.. of the history: a scissor command
\* for a push_scissor, and a TriBatch for a run of consecutive submissions
\* of its texture, with their counts added up
BatchesOf(cmds, k, hist, j) ==
  IF k > Len(cmds) THEN j > Len(hist)
  ELSE IF cmds[k].m_kind = "CALL_SCISSOR"
    THEN /\ j <= Len(hist)
         /\ hist[j].op = "scissor"
         /\ BatchesOf(cmds, k + 1, hist, j + 1)
  ELSE \E n \in 1 .. (Len(hist) - j + 1) :
         /\ \A m \in j .. (j + n - 1) :
              /\ hist[m].op # "scissor"
              /\ hist[m].texture = cmds[k].m_texture_handle
         /\ SumCounts(hist, j, j + n - 1)
              = [v |-> cmds[k].m_vertices, i |-> cmds[k].m_indices, p |-> cmds[k].m_primitives]
         /\ BatchesOf(cmds, k + 1, hist, j + n)

RECURSIVE BatchTotal(_, _)
\* vertex and index counts of all TriBatch commands up to the k-th
BatchTotal(cmds, k) ==
  IF k = 0 THEN [v |-> u32_zero, i |-> u32_zero]
  ELSE LET rest == BatchTotal(cmds, k - 1) IN
       IF cmds[k].m_kind = "CALL_TRI"
         THEN [v |-> u32_add(rest.v, cmds[k].m_vertices), i |-> u32_add(rest.i, cmds[k].m_indices)]
         ELSE rest

\* C12: each TriBatch command's counts are the sums of the counts of the
\* shapes submitted into it, the vertex (index) counts of all TriBatch
\* commands add up to the vertex (index) buffer's size, and the cursors of
\* flush() end at these sizes.
C12_BatchCountsAreSums ==
  fault = "none" =>
    /\ BatchesOf(queue.m_drawcalls, 1, queue_hist, 1)
    /\ BatchTotal(queue.m_drawcalls, Len(queue.m_drawcalls)).v = queue.m_vtxs.m_size
    /\ BatchTotal(queue.m_drawcalls, Len(queue.m_drawcalls)).i = queue.m_idxs.m_size
    /\ (queue_call.op = "flush" /\ queue_call.ops # <<>>)
         => \A k \in 1 .. Len(queue_call.ops) :
              queue_call.ops[k].op = "DrawIndexedPrimitive"
                => /\ queue_call.ops[k].base_vertex = BatchTotal(queue.m_drawcalls, k - 1).v
                   /\ queue_call.ops[k].start_index = BatchTotal(queue.m_drawcalls, k - 1).i

\* a flushed queue of two commands, the first one merged from two shapes
C12_Witness ==
  /\ fault = "none"
  /\ queue_call.op = "flush"
  /\ Len(queue_call.ops) = 2
  /\ Len(queue_hist) = 3
  /\ queue.m_drawcalls[1].m_vertices = u32(7)
  /\ queue_call.ops[2].base_vertex = u32(7)
  /\ queue.m_vtxs.m_size = u32(11)

\* the operations that submit shapes or commands
Submissions == {"rectangle", "triangle", "line", "text", "scissor"}

\* a submission leaves both GPU-side buffers as they are
SubmissionKeepsGpuBuffers ==
  [][ queue_call'.op \in Submissions
        => /\ queue'.m_vertex_buffer = queue.m_vertex_buffer
           /\ queue'.m_index_buffer = queue.m_index_buffer ]_vars

\* an update() that clears m_update has recreated every flagged GPU-side
\* buffer at the host buffer's capacity and uploaded the used range of both
UpdateRecreatesThenUploads ==
  [][ (queue_call'.op = "flush" /\ queue.m_update /\ ~queue'.m_update)
        => /\ queue.m_realloc_vtx
                => queue'.m_vertex_buffer.capacity = queue.m_vtxs.m_capacity
           /\ queue.m_realloc_idx
                => queue'.m_index_buffer.capacity = queue.m_idxs.m_capacity
           /\ ~queue'.m_realloc_vtx /\ ~queue'.m_realloc_idx
           /\ queue'.m_vertex_buffer.uploaded = queue.m_vtxs.m_size
           /\ queue'.m_index_buffer.uploaded = queue.m_idxs.m_size ]_vars

\* C18: growth is two-phase (submission only flags, update() recreates the
\* flagged GPU-side buffers at the host capacity before it uploads), so no
\* upload writes more elements than the GPU-side buffer it goes to holds.
C18_UploadWithinGpuBuffer ==
  fault = "none" =>
    /\ u32_le(queue.m_vertex_buffer.uploaded, queue.m_vertex_buffer.capacity)
    /\ u32_le(queue.m_index_buffer.uploaded, queue.m_index_buffer.capacity)

\* C19: flush() issues nothing and leaves the queue alone when there is no
\* command; otherwise update() runs exactly when m_update is set, and the
\* commands are answered one device operation each, in order: a TriBatch by
\* a draw with its texture and counts whose base vertex and start index are
\* the totals of the TriBatch commands before it, a scissor command by a
\* scissor rectangle of its position and size.
C19_FlushOneOperationPerCommand ==
  [][ (queue_call'.op = "flush" /\ fault' = "none")
        => LET cmds == queue.m_drawcalls
               ops  == queue_call'.ops
           IN  /\ cmds = <<>> => (ops = <<>> /\ queue' = queue)
               /\ ~queue.m_update => queue' = queue
               /\ cmds # <<>> => queue_call'.ret = queue.m_update
               /\ queue'.m_drawcalls = cmds
               /\ Len(ops) = Len(cmds)
               /\ \A k \in 1 .. Len(cmds) :
                    /\ cmds[k].m_kind = "CALL_TRI"
                         => /\ ops[k].op = "DrawIndexedPrimitive"
                            /\ ops[k].texture = cmds[k].m_texture_handle
                            /\ ops[k].num_vertices = cmds[k].m_vertices
                            /\ ops[k].primitives = cmds[k].m_primitives
                            /\ ops[k].base_vertex = BatchTotal(cmds, k - 1).v
                            /\ ops[k].start_index = BatchTotal(cmds, k - 1).i
                    /\ cmds[k].m_kind = "CALL_SCISSOR"
                         => /\ ops[k].op = "SetScissorRect"
                            /\ ops[k].position = cmds[k].m_position
                            /\ ops[k].size = cmds[k].m_size ]_vars

\* a flush that uploaded and answered a TriBatch, a scissor command and a
\* second TriBatch, the second draw starting where the first one ended
C19_Witness ==
  /\ fault = "none"
  /\ queue_call.op = "flush"
  /\ queue_call.ret
  /\ ~queue.m_update
  /\ Len(queue_call.ops) = 3
  /\ queue_call.ops[1].op = "DrawIndexedPrimitive"
  /\ queue_call.ops[2].op = "SetScissorRect"
  /\ queue_call.ops[3].op = "DrawIndexedPrimitive"
  /\ queue_call.ops[3].base_vertex = u32(4)
  /\ queue_call.ops[3].start_index = u32(6)

\* C20: clear() sets the size of both host buffers to 0 and removes every
\* command; the capacities, the host storage, the GPU-side handles and the
\* pending-resize flags are what they were.
C20_ClearKeepsStorage ==
  [][ queue_call'.op = "clear"
        => /\ queue'.m_vtxs.m_size = u32_zero
           /\ queue'.m_idxs.m_size = u32_zero
           /\ queue'.m_drawcalls = <<>>
           /\ queue'.m_vtxs.m_capacity = queue.m_vtxs.m_capacity
           /\ queue'.m_idxs.m_capacity = queue.m_idxs.m_capacity
           /\ queue'.m_vtxs.m_data = queue.m_vtxs.m_data
           /\ queue'.m_idxs.m_data = queue.m_idxs.m_data
           /\ queue'.m_vertex_buffer = queue.m_vertex_buffer
           /\ queue'.m_index_buffer = queue.m_index_buffer
           /\ queue'.m_realloc_vtx = queue.m_realloc_vtx
           /\ queue'.m_realloc_idx = queue.m_realloc_idx ]_vars

\* a queue cleared after its host buffers grew to two rectangles' worth and
\* before the GPU-side buffers followed
C20_Witness ==
  /\ queue_call.op = "clear"
  /\ queue.m_drawcalls = <<>>
  /\ queue.m_vtxs.m_size = u32_zero
  /\ queue.m_vtxs.m_capacity = u32(8)
  /\ queue.m_idxs.m_capacity = u32(12)
  /\ queue.m_vertex_buffer.capacity = u32(4)
  /\ queue.m_realloc_vtx
  /\ queue.m_realloc_idx

\* C21: reset(pre) leaves both GPU-side handles null, reset(post) that
\* succeeds after it holds two new GPU-side buffers of the host buffers'
\* capacities, and neither call changes the host buffers (storage, size,
\* capacity) or the command list of a queue that has its host storage.
C21_ResetRebuildsGpuSideOnly ==
  [][ (queue_call'.op \in {"reset_pre", "reset_post"} /\ fault' = "none"
         /\ queue.m_vtxs.m_data.allocated /\ queue.m_idxs.m_data.allocated)
        => /\ queue'.m_vtxs = queue.m_vtxs
           /\ queue'.m_idxs = queue.m_idxs
           /\ queue'.m_drawcalls = queue.m_drawcalls
           /\ queue_call'.op = "reset_pre"
                => /\ queue'.m_vertex_buffer.state = NULL
                   /\ queue'.m_index_buffer.state = NULL
           /\ (/\ queue_call'.op = "reset_post"
               /\ queue_call'.ret
               /\ queue.m_vertex_buffer.state = NULL
               /\ queue.m_index_buffer.state = NULL)
                => /\ queue'.m_vertex_buffer = gpu_buffer(queue.m_vtxs.m_capacity)
                   /\ queue'.m_index_buffer = gpu_buffer(queue.m_idxs.m_capacity) ]_vars

\* a queue whose host buffers grew to two rectangles' worth, rebuilt by
\* reset(pre) and reset(post) before any flush: the GPU-side buffers have
\* the grown capacities and the geometry is still there
C21_Witness ==
  /\ queue_call.op = "reset_post"
  /\ queue_call.ret
  /\ queue.m_vertex_buffer = gpu_buffer(u32(8))
  /\ queue.m_index_buffer = gpu_buffer(u32(12))
  /\ queue.m_vtxs.m_size = u32(8)
  /\ queue.m_realloc_vtx
  /\ Len(queue.m_drawcalls) = 1

\* the submissions that produce triangles
TriangleSubmissions == {"rectangle", "triangle", "line", "text"}

\* C23: a triangle-producing submission that directly follows another one
\* with the same texture handle adds no command: the two are one TriBatch,
\* also when the first one was a text without geometry.
C23_AdjacentSameTextureMerged ==
  [][ (/\ queue_calls' = queue_calls + 1
       /\ fault' = "none"
       /\ queue_call'.op \in TriangleSubmissions
       /\ queue_hist # <<>>
       /\ queue_hist[Len(queue_hist)].op \in TriangleSubmissions
       /\ queue_hist[Len(queue_hist)].texture = queue_call'.texture)
        => /\ Len(queue'.m_drawcalls) = Len(queue.m_drawcalls)
           /\ queue'.m_drawcalls[Len(queue'.m_drawcalls)].m_kind = "CALL_TRI" ]_vars

RECURSIVE PrimitiveTotal(_, _)
\* the primitive counts of all TriBatch commands up to the k-th
PrimitiveTotal(cmds, k) ==
  IF k = 0 THEN u32_zero
  ELSE IF cmds[k].m_kind = "CALL_TRI"
    THEN u32_add(PrimitiveTotal(cmds, k - 1), cmds[k].m_primitives)
    ELSE PrimitiveTotal(cmds, k - 1)

\* the characters of a text that are above ' '
Glyphs(text) == u32(text_count(text, {"glyph"}))

\* C29: push_text adds 4 vertices, 6 indices and 2 primitives for every
\* character above ' ' and nothing for the other characters, and it adds at
\* most one command, the commands before the last one staying as they are.
C29_TextAddsQuadPerGlyph ==
  [][ (/\ queue_calls' = queue_calls + 1
       /\ fault' = "none"
       /\ queue_call'.op = "text")
        => LET before == queue.m_drawcalls
               after == queue'.m_drawcalls
               n == Glyphs(queue_call'.text)
           IN  /\ queue'.m_vtxs.m_size = u32_add(queue.m_vtxs.m_size, u32_scale(n, 4))
               /\ queue'.m_idxs.m_size = u32_add(queue.m_idxs.m_size, u32_scale(n, 6))
               /\ BatchTotal(after, Len(after)).v
                    = u32_add(BatchTotal(before, Len(before)).v, u32_scale(n, 4))
               /\ BatchTotal(after, Len(after)).i
                    = u32_add(BatchTotal(before, Len(before)).i, u32_scale(n, 6))
               /\ PrimitiveTotal(after, Len(after))
                    = u32_add(PrimitiveTotal(before, Len(before)), u32_scale(n, 2))
               /\ Len(after) \in {Len(before), Len(before) + 1}
               /\ \A k \in 1 .. Len(before) :
                    (k < Len(before) \/ Len(after) = Len(before) + 1) => after[k] = before[k] ]_vars

\* a glyph, a line break, a control character and a space, pushed after a
\* rectangle of another texture: one more command, of one quad
C29_Witness ==
  /\ fault = "none"
  /\ queue_call.op = "text"
  /\ text_size(queue_call.text) = 4
  /\ Glyphs(queue_call.text) = u32(1)
  /\ Len(queue_hist) = 2
  /\ queue_hist[1].op = "rectangle"
  /\ Len(queue.m_drawcalls) = 2
  /\ queue.m_drawcalls[2].m_vertices = u32(4)
  /\ queue.m_drawcalls[2].m_indices = u32(6)
  /\ queue.m_drawcalls[2].m_primitives = u32(2)
  /\ queue.m_vtxs.m_size = u32(8)
  /\ queue.m_idxs.m_size = u32(12)

\* the largest index value of a run: its values are first, first + 1, ...
\* modulo 2^16, one for each vertex
RunTop(r) ==
  IF r.vertices[1] > 0 \/ r.first + r.vertices[2] > Half
    THEN Half - 1
    ELSE r.first + r.vertices[2] - 1

\* the runs of indices the draw of the k-th command reads
CommandRuns(q, k) ==
  LET start == BatchTotal(q.m_drawcalls, k - 1).i
      end == BatchTotal(q.m_drawcalls, k).i
  IN  { j \in 1 .. Len(q.m_idxs.m_data.runs) :
          /\ u32_le(start, q.m_idxs.m_data.runs[j].at)
          /\ u32_lt(q.m_idxs.m_data.runs[j].at, end) }

\* C31: every index stored for a TriBatch command is below the vertex count
\* of that command, also in a command of more than 65535 vertices.
C31_IndicesBelowVertexCount ==
  fault = "none" =>
    \A k \in 1 .. Len(queue.m_drawcalls) :
      queue.m_drawcalls[k].m_kind = "CALL_TRI"
        => \A j \in CommandRuns(queue, k) :
             u32_lt(u32(RunTop(queue.m_idxs.m_data.runs[j])), queue.m_drawcalls[k].m_vertices)

\* a rectangle merged into the command of a text of 65536 vertices: its
\* indices are stored as 0 .. 3, in a command of 65540 vertices
C31_Witness ==
  /\ fault = "none"
  /\ queue_call.op = "rectangle"
  /\ Len(queue.m_drawcalls) = 1
  /\ queue.m_drawcalls[1].m_vertices = <<1, 4>>
  /\ Len(queue.m_idxs.m_data.runs) = 2
  /\ CommandRuns(queue, 1) = {1, 2}
  /\ RunTop(queue.m_idxs.m_data.runs[1]) = Half - 1
  /\ queue.m_idxs.m_data.runs[2].first = 0
  /\ RunTop(queue.m_idxs.m_data.runs[2]) = 3

\* a resize of a GPU buffer is pending
ResizePending(q) == q.m_realloc_vtx \/ q.m_realloc_idx

IssuesDraw(ops) == \E k \in 1 .. Len(ops) : ops[k].op = "DrawIndexedPrimitive"

\* C33: when flush issues a draw, both GPU buffers are live and hold the
\* used range of the host buffers as it is now: what was uploaded last is
\* m_size elements and no upload is pending.
C33_DrawnBuffersHoldHostData ==
  (fault = "none" /\ queue_call.op = "flush" /\ IssuesDraw(queue_call.ops))
    => /\ queue.m_vertex_buffer.state = "live"
       /\ queue.m_index_buffer.state = "live"
       /\ queue.m_vertex_buffer.uploaded = queue.m_vtxs.m_size
       /\ queue.m_index_buffer.uploaded = queue.m_idxs.m_size
       /\ ~queue.m_update

\* C37: flush leaves the command list and both host buffers as they are,
\* and a flush that directly follows a flush issues the same device
\* operations as the first and does not run update() when the first one
\* left no upload pending.
C37_FlushKeepsQueueAndRepeats ==
  [][ (/\ queue_calls' = queue_calls + 1
       /\ queue_call'.op = "flush"
       /\ fault' = "none")
        => /\ queue'.m_drawcalls = queue.m_drawcalls
           /\ queue'.m_vtxs = queue.m_vtxs
           /\ queue'.m_idxs = queue.m_idxs
           /\ queue_call.op = "flush"
                => /\ queue_call'.ops = queue_call.ops
                   /\ ~queue.m_update => ~queue_call'.ret ]_vars

\* the second flush of a created queue with one rectangle: the draw is
\* issued and nothing is uploaded again
C37_Witness ==
  /\ fault = "none"
  /\ queue_calls = 4
  /\ queue_hist = <<Rectangle("texA")>>
  /\ queue_call.op = "flush"
  /\ ~queue_call.ret
  /\ IssuesDraw(queue_call.ops)
  /\ ~queue.m_update
  /\ queue.m_vertex_buffer.state = "live"
  /\ queue.m_vertex_buffer.uploaded = u32(4)
  /\ queue.m_vtxs.m_size = u32(4)

\* C38: ensure_buffers_capacity returns, whatever the created queue and the
\* additions asked for, a queue created with a capacity of 0 included.
C38_EnsureCapacityTerminates ==
  (fault = "none" /\ queue.m_vtxs.m_data.allocated /\ queue.m_idxs.m_data.allocated) =>
    \A v \in Additions, i \in Additions :
      ensure_buffers_capacity(queue, u32(v), u32(i)).fault # "hang"

(***************************************************************************)
(* Properties of c_doublebuffer_queue                                      *)
(***************************************************************************)
OtherSlot(slot) == IF slot = "front" THEN "back" ELSE "front"

\* C5: at every instant one slot is the write target queue() returns and
\* the other one is the flush target of flush(); the roles depend on the
\* boolean only, each swap() exchanges them, and two swaps restore them.
C5_OneWriteTargetOneFlushTarget ==
  /\ []( /\ doublebuffer_flush_slot(dbq) = OtherSlot(doublebuffer_queue(dbq))
         /\ doublebuffer_queue(dbq)
              = doublebuffer_queue(DoubleBufferConstructed(dbq.m_swap_drawlists))
         /\ doublebuffer_flush_slot(dbq)
              = doublebuffer_flush_slot(DoubleBufferConstructed(dbq.m_swap_drawlists))
         /\ doublebuffer_queue(doublebuffer_swap(doublebuffer_swap(dbq)))
              = doublebuffer_queue(dbq)
         /\ doublebuffer_flush_slot(doublebuffer_swap(doublebuffer_swap(dbq)))
              = doublebuffer_flush_slot(dbq) )
  /\ [][ dbq_swaps' # dbq_swaps
           => /\ doublebuffer_queue(dbq') = doublebuffer_flush_slot(dbq)
              /\ doublebuffer_flush_slot(dbq') = doublebuffer_queue(dbq) ]_vars
  /\ [][ /\ (writer'.pc = "writing" /\ writer.pc = "idle")
              => writer'.slot = doublebuffer_queue(dbq)
         /\ (flusher'.pc = "flushing" /\ flusher.pc = "idle")
              => flusher'.slot = OtherSlot(doublebuffer_queue(dbq)) ]_vars

C5_Witness ==
  /\ dbq_swaps = 2
  /\ writer.pc = "writing"
  /\ flusher.pc = "flushing"
  /\ flusher.slot # writer.slot

\* C6: after the writer has appended commands through queue() and called
\* swap(), a flush() issues exactly the commands the slot held at that
\* swap(), in their order, and none of those appended to the other slot
\* since.
C6_FlushIssuesWhatWasHandedOver ==
  (fault = "none" /\ flusher.pc = "idle")
    => IssuedInOrder(flusher.ops, flusher.expect)

C6_Witness ==
  /\ fault = "none"
  /\ flusher.pc = "idle"
  /\ Len(flusher.ops) = 2
  /\ dbq_swaps = 1
  /\ flusher.expect = dbq_handoff[flusher.slot].m_drawcalls
  /\ flusher.slot # doublebuffer_queue(dbq)
  /\ slot_queue(dbq, doublebuffer_queue(dbq)).m_drawcalls # <<>>
  /\ writer.pc = "idle"

Empty(q) ==
  /\ q.m_drawcalls = <<>>
  /\ q.m_vtxs.m_size = u32_zero
  /\ q.m_idxs.m_size = u32_zero

\* C7: after any swap() of a writer that only pushes and swaps, the next
\* queue() returns the other slot, and that slot is empty: no commands,
\* vertex and index sizes 0.
C7_SwapYieldsEmptySlot ==
  [][ dbq_swaps' # dbq_swaps
        => /\ doublebuffer_queue(dbq') = OtherSlot(doublebuffer_queue(dbq))
           /\ Empty(slot_queue(dbq', doublebuffer_queue(dbq'))) ]_vars

\* C7, amended: after any swap() the next queue() returns the other slot,
\* and that slot holds what it held when it was handed to the flusher: it
\* is empty after the first swap() only, and afterwards it still has the
\* commands and sizes of two swaps before.
C7_SwapYieldsSlotAsHandedOver ==
  [][ dbq_swaps' # dbq_swaps
        => /\ doublebuffer_queue(dbq') = OtherSlot(doublebuffer_queue(dbq))
           /\ Contents(slot_queue(dbq', doublebuffer_queue(dbq')))
                = dbq_handoff[doublebuffer_queue(dbq')]
           /\ (dbq_swaps = 0 => Empty(slot_queue(dbq', doublebuffer_queue(dbq')))) ]_vars

C7_Witness ==
  /\ writer = WriterIdle("swap")
  /\ dbq_swaps = 2
  /\ ~Empty(slot_queue(dbq, doublebuffer_queue(dbq)))
  /\ Contents(slot_queue(dbq, doublebuffer_queue(dbq)))
       = dbq_handoff[doublebuffer_queue(dbq)]

\* the writer is inside a call on the slot the flusher is flushing
Race ==
  /\ writer.pc = "writing"
  /\ flusher.pc = "flushing"
  /\ writer.slot = flusher.slot

\* C8: there is no back-pressure: while flush() is in the middle of the
\* slot that queue() returns, the writer can enter clear() and push_* on
\* it, which is the state of the data race.
C8_NoBackPressure ==
  ( /\ fault = "none"
    /\ writer.pc = "idle"
    /\ flusher.pc = "flushing"
    /\ flusher.slot = doublebuffer_queue(dbq) )
    => /\ ENABLED WriterClear
       /\ dbq_writes < MaxWrites => ENABLED WriterPush

C8_Witness ==
  /\ Race
  /\ fault = "none"
  /\ writer.op \in WriterPushes
  /\ flusher.idx = 2

\* C9: under the usage contract the writer and the flusher are never in
\* the same slot at the same time.
C9_ContractKeepsThreadsApart == ~Race

C9_Witness ==
  /\ writer.pc = "writing"
  /\ flusher.pc = "flushing"
  /\ writer.slot # flusher.slot
  /\ dbq_swaps = 1
  /\ flusher.idx = 2

(***************************************************************************)
(* c_fontwrapper: properties                                               *)
(***************************************************************************)
RECURSIVE IsDoubled128(_)
\* n is 128 doubled some number of times
IsDoubled128(n) ==
  IF n <= 128 THEN n = 128 ELSE n % 2 = 0 /\ IsDoubled128(n \div 2)

StrictlyDecreasing(seq) == \A i \in 1 .. Len(seq) - 1 : seq[i] > seq[i + 1]

\* C13: create ends, for every font and every device ceiling: neither the
\* doubling loop nor the shrinking loop runs forever; when it ends with the
\* scale 1 the side of the atlas is a power of two, at least 128, and
\* otherwise the scales the shrinking loop went through strictly decrease.
C13_CreateTerminates ==
  font_call.op = "create" =>
    /\ fault # "hang"
    /\ font.m_scale = ScaleOne => IsDoubled128(font.m_width)
    /\ font.m_scale # ScaleOne => StrictlyDecreasing(font_call.scales)

\* the largest element of a non-empty sequence of numbers
MaxOf(seq) == CHOOSE m \in {seq[i] : i \in DOMAIN seq} : \A i \in DOMAIN seq : seq[i] <= m

\* C14: for every text and every scale of the atlas, the width text_extent
\* returns is the largest, over the lines of the text, of the sums of the
\* advances push_text moves its pen by; the line height of text_extent is
\* the advance push_text makes at a line break; so a right-aligned text,
\* which starts text_extent's width to the left, ends within one pixel of
\* the x asked for.  Widths are compared in 1 / m_scale of a pixel.
C14_ExtentIsPushTextLayout ==
  font_call.op = "text_extent" /\ font.m_scale > 0 =>
    /\ font_call.width * font.m_scale = MaxOf(font_call.layout.rows)
    /\ font_call.height = font_call.layout.line_height * Len(font_call.layout.rows)
    /\ Distance(font_call.width * font.m_scale, MaxOf(font_call.layout.rows))
         <= font.m_scale

\* a call of the rasterizer failed in the create just made: in a measuring
\* pass, in the drawing pass, or for one glyph in both
RasterizerFailed ==
  \/ font_call.faults.measure # "none"
  \/ font_call.faults.paint # "none"
  \/ font_env.font.unmeasurable # {}

\* coords gives the all-zero rectangle for every code point
NothingExposed == \A ch \in FontGlyphs : fontwrapper_coords(font, ch) = null_uv

\* C15: a create during which a call of the rasterizer failed, in a
\* measuring pass or in the drawing pass, returns false, and after it coords
\* gives the all-zero rectangle for every code point.
C15_RasterizerFailureFailsCreate ==
  font_call.op = "create" /\ fault = "none" /\ RasterizerFailed =>
    /\ ~font_call.ret
    /\ NothingExposed

\* the atlas of f and of g: dimensions, scale and the rectangle of every
\* code point
SameAtlas(f, g) ==
  /\ f.m_width = g.m_width
  /\ f.m_height = g.m_height
  /\ f.m_scale = g.m_scale
  /\ \A ch \in FontGlyphs : fontwrapper_coords(f, ch) = fontwrapper_coords(g, ch)

\* C17: with the font of the rasterizer and the ceiling of the device as
\* they were, reset(pre) followed by reset(post) gives the dimensions, the
\* scale and the rectangles the create gave, also when the create shrank
\* the font.
C17_ResetReproducesCreate ==
  /\ font_call.op = "reset_post"
  /\ font_call.prev = "reset_pre"
  /\ font_created.live
  /\ font_created.faults = NoFaults
  /\ fault = "none"
  => font_call.ret /\ SameAtlas(font, font_created.f)

\* C24: after a create that succeeded the scale is at most 1, the atlas is
\* no wider and no higher than the device's largest texture, and the scale
\* is 1 exactly when the side the doubling loop ended with is within that
\* limit.
C24_ScaleAndAtlasWithinCeiling ==
  (font_call.op = "create" /\ font_call.ret /\ fault = "none")
    => /\ font.m_scale <= ScaleOne
       /\ font.m_width <= font_env.max_texture
       /\ font.m_height <= font_env.max_texture
       /\ font.m_scale = ScaleOne <=> font_call.fitted <= font_env.max_texture

\* a create that succeeded with an atlas cut down from 256 to a limit of 130
C24_Witness ==
  /\ font_call.op = "create"
  /\ font_call.ret
  /\ fault = "none"
  /\ font_call.fitted = 256
  /\ font_env.max_texture = 130
  /\ font.m_width = 130
  /\ font.m_height = 130
  /\ font.m_scale < ScaleOne

\* C25: after a create that succeeded the mapping has an entry for every
\* code point of the font's ranges that the rasterizer measures, and none
\* for a code point it fails to measure.
C25_MeasuredGlyphsHaveEntries ==
  (font_call.op = "create" /\ font_call.ret /\ fault = "none")
    => \A ch \in InRanges(font_env.font.ranges) :
         ch \in DOMAIN font.m_coords <=> ch \notin font_env.font.unmeasurable

\* what one character above the control characters adds to the width of
\* its line
Advance(f, c) == uv_span(fontwrapper_coords(f, c), 1, 3, f.m_width) - 2 * f.m_spacing

RECURSIVE AdvanceSum(_, _, _, _)
\* the advances of the characters j .. k of the text, control characters
\* counting nothing
AdvanceSum(f, text, j, k) ==
  IF j > k THEN 0
  ELSE (IF text[k] < 32 THEN 0 ELSE Advance(f, text[k])) + AdvanceSum(f, text, j, k - 1)

\* the first character of the line character k is in
LineStart(text, k) ==
  LET breaks == {j \in 1 .. k : text[j] = 10}
  IN  IF breaks = {} THEN 1 ELSE 1 + CHOOSE j \in breaks : \A i \in breaks : i <= j

\* the widths the lines of the text reach, and 0
LineWidths(f, text) ==
  {0} \cup { AdvanceSum(f, text, LineStart(text, k), k) : k \in {i \in 1 .. Len(text) : text[i] >= 32} }

LineBreaks(text) == Cardinality({k \in 1 .. Len(text) : text[k] = 10})

LineHeight(f) == uv_span(fontwrapper_coords(f, 32), 2, 4, f.m_height)

\* C27: text_extent returns the height of a line times one more than the
\* number of line breaks, and the largest width a line of the text reaches:
\* control characters add nothing to a line, and a line break starts the
\* next line at 0 and keeps the largest width reached before it.
C27_ExtentIsLinesAndWidestLine ==
  font_call.op = "text_extent"
    => /\ font_call.height = LineHeight(font) * (1 + LineBreaks(font_call.text))
       /\ font_call.width \in LineWidths(font, font_call.text)
       /\ \A w \in LineWidths(font, font_call.text) : w <= font_call.width

\* "AB\n\tx" measured with a created font: two lines, the width that of the
\* first line, which the second one does not reach
C27_Witness ==
  /\ font_call.op = "text_extent"
  /\ font_call.text = <<65, 66, 10, 9, 120>>
  /\ font_created.live
  /\ font_call.height = 2 * LineHeight(font)
  /\ LineHeight(font) > 0
  /\ font_call.width = Advance(font, 65) + Advance(font, 66)
  /\ font_call.width > Advance(font, 120)
  /\ Advance(font, 120) > 0

\* the calls that begin with a Release() through m_texture_handle when it
\* is not null
ReleasingCalls == {"create", "reset_pre", "reset_post", "erase"}

\* C34: no create, reset or erase calls Release() through a texture handle
\* that has been released already.
C34_TextureReleasedOnce ==
  [][ (font_calls' = font_calls + 1 /\ font_call'.op \in ReleasingCalls)
        => font.m_texture_handle.state # "released" ]_vars

\* C36: text_extent leaves the mapping from code points to UVRects as it
\* is: it adds no entry, whatever the text.
C36_TextExtentKeepsMapping ==
  [][ (font_calls' = font_calls + 1 /\ font_call'.op = "text_extent")
        => font'.m_coords = font.m_coords ]_vars


\* the code points the drawing pass of a create stores a UVRect for
DrawnGlyphs(env) ==
  {ch \in FontGlyphs :
     /\ \E r \in 1 .. Len(env.ranges) :
          ch \in env.ranges[r].wcLow .. (env.ranges[r].wcLow + env.ranges[r].cGlyphs - 1)
     /\ ch \notin env.unmeasurable}

\* the UVRect lies in [0,1] x [0,1]
InUnitSquare(uv) ==
  \A k \in 1 .. 4 : FracLe(FracZero, uv[k]) /\ FracLe(uv[k], FracOne)

\* the pixels of the atlas of f a UVRect covers
PixelCell(f, uv) ==
  [left |-> FracToPixel(uv[1], f.m_width), top |-> FracToPixel(uv[2], f.m_height),
   right |-> FracToPixel(uv[3], f.m_width), bottom |-> FracToPixel(uv[4], f.m_height)]

CellsOverlap(a, b) ==
  /\ a.left < b.right /\ b.left < a.right
  /\ a.top < b.bottom /\ b.top < a.bottom

\* C39: after a create that returned true, the UVRect of every glyph the
\* create drew lies in the unit square, and the pixel cells of two distinct
\* code points it drew do not overlap.
C39_GlyphCellsInsideAndApart ==
  (fault = "none" /\ font_call.op = "create" /\ font_call.ret) =>
    /\ \A ch \in DrawnGlyphs(font_env.font) :
         ch \in DOMAIN font.m_coords /\ InUnitSquare(font.m_coords[ch])
    /\ \A a \in DrawnGlyphs(font_env.font), b \in DrawnGlyphs(font_env.font) :
         a # b => ~CellsOverlap(PixelCell(font, font.m_coords[a]),
                                PixelCell(font, font.m_coords[b]))

=============================================================================
